---- MODULE Spec2Model ----
(***************************************************************************)
(* Agent orchestration and streaming pipeline of cx58-agent.               *)
(*                                                                         *)
(*   src/src/agents/master_agent.rs   CancellationToken, RequestManager,   *)
(*                                    AgentContext, MasterAgent            *)
(*   src/src/agents/task_detector.rs  Task, TaskParameters, TaskDetector   *)
(*   src/src/agents/*_agent.rs        the five handlers                    *)
(*   src/src/agents/events.rs         StreamEvent                          *)
(*   src/src/handlers.rs              chat_stream_handler                  *)
(*                                                                         *)
(* The specifications share the registry and the token heap:               *)
(*   Spec      a request run by MasterAgent::handle_request_stream, its    *)
(*             consumer, and callers of MasterAgent::cancel_request;       *)
(*   FairSpec  Spec with weak fairness on the steps of the orchestration   *)
(*             tasks (tokio runs every ready task) and on nothing else;    *)
(*   SpecDrain a request whose consumer receives until the channel is      *)
(*             closed, both being scheduled fairly;                        *)
(*   SpecMany  several requests in flight together;                        *)
(*   SpecRM    a client of the public types RequestManager and             *)
(*             CancellationToken calling their methods in any order;       *)
(*   SpecLocks tasks calling the same methods, with the RwLocks of the    *)
(*             registry and of the tokens taken and released one by one;   *)
(*   SpecDetect  TaskDetector::detect_task on any PromptContext;           *)
(*   SpecSSE   chat_stream_handler reading a channel fed by any producer;  *)
(*   SpecSSEFail  SpecSSE with a serializer that may fail;                 *)
(*   SpecWire  a StreamEvent written as JSON and read back.                *)
(***************************************************************************)
EXTENDS Integers, Sequences, FiniteSets, TLC

(***************************************************************************)
(* Bounds of the model.                                                    *)
(***************************************************************************)
\* requests submitted to handle_request_stream
NumRequests == 2
\* mpsc::channel(100) of master_agent.rs:162, scaled down.  It stays above
\* the six events of a non-Chat request, as 100 does, and below the event
\* count of the longest Chat completion of ResponseLengths, as 100 is below
\* that of a completion of more than 1940 characters.
ChannelCapacity == 6

\* SpecLocks: tasks that call the methods, and tokens they create
NumTasks == 2

MaxLockTokens == 1

\* mpsc::channel(100): the capacity in the code
CodeChannelCapacity == 100
\* ids a client of RequestManager registers, cancels and unregisters
NumIds == 2
\* tokens a client of RequestManager creates with register
MaxTokens == 2
\* requests that run at the same time in SpecMany
MaxInFlight == 2
\* events a producer sends into the channel that chat_stream_handler reads
MaxFeed == 3
\* the largest amount of a PromptContext given to detect_task
MaxAmount == 2
\* handles (clones of tokens) a client of RequestManager holds
MaxHandles == 2

\* chunk_size of ChatAgent::execute
ChunkSize == 20

Requests == 1..NumRequests

(***************************************************************************)
(* Uuid::now_v7(): every call returns a value no other call returns.  The  *)
(* n-th call made by the task of request r returns NewUuid(r, n); 0 is an  *)
(* id that no call ever returned.                                          *)
(***************************************************************************)
\* ids that number the calls of one task only
NewUuid_per_task(r, n) == n

NewUuid(r, n) == 2 * (r - 1) + n

UnknownId == 0

\* chrono::Utc::now().timestamp(): the one reading of the clock in a run
Now == 1

\* what a caller may pass to cancel_request: any string
CancelIds == {UnknownId} \cup {NewUuid(r, n) : r \in Requests, n \in 1..2}

(***************************************************************************)
(* Texts.  A text is a sequence of words; str::contains(word) is           *)
(* membership of the word.                                                 *)
(***************************************************************************)
Contains(text, word) == \E i \in 1..Len(text) : text[i] = word

\* CancellationToken::check: Err("Operation cancelled")
OperationCancelled == <<"Operation", "cancelled">>

\* errors of the inference call (agent.prompt(..).await?): any text
InferenceErrors ==
    { <<"connection", "refused">>, <<"request", "cancelled", "by", "backend">> }

\* completions of the inference call, by their length in characters
ResponseLengths == {0, 30, ChunkSize * (ChannelCapacity - 2)}

(***************************************************************************)
(* CancellationToken and RequestManager.                                   *)
(* The heap of tokens is the sequence tokens: token t is the flag          *)
(* tokens[t] (Arc<RwLock<bool>>); a handle or a registry entry is an index *)
(* into it, and clones of a token are equal indices.  The registry is a    *)
(* function from the ids present to tokens.                                *)
(***************************************************************************)

\* CancellationToken::new
Token_new(tok) == Append(tok, FALSE)

\* a cancel that flips the flag instead of setting it
Token_cancel_toggle(tok, t) == [tok EXCEPT ![t] = ~@]

\* CancellationToken::cancel
Token_cancel(tok, t) == [tok EXCEPT ![t] = TRUE]

\* CancellationToken::is_cancelled
Token_is_cancelled(tok, t) == tok[t]

\* a check with its two branches exchanged
Token_check_inverted(tok, t) ==
    IF Token_is_cancelled(tok, t)
    THEN [ok |-> TRUE]
    ELSE [ok |-> FALSE, err |-> OperationCancelled]

\* CancellationToken::check: Ok(()) or Err("Operation cancelled")
Token_check(tok, t) ==
    IF Token_is_cancelled(tok, t)
    THEN [ok |-> FALSE, err |-> OperationCancelled]
    ELSE [ok |-> TRUE]

\* HashMap::insert
Map_insert(reg, id, t) ==
    [k \in DOMAIN reg \cup {id} |-> IF k = id THEN t ELSE reg[k]]

\* HashMap::remove
Map_remove(reg, id) == [k \in DOMAIN reg \ {id} |-> reg[k]]

\* RequestManager::register: the heap and the registry after it; the handle
\* it returns is Len of the new heap
\* a register that stores one new token and returns another
Register_tokens_two(tok) == Token_new(Token_new(tok))

Register_tokens(tok) == Token_new(tok)

\* a register that keeps the entry an id already has
Register_registry_keeps(reg, tok, id) ==
    IF id \in DOMAIN reg THEN reg ELSE Map_insert(reg, id, Len(tok) + 1)

Register_registry(reg, tok, id) == Map_insert(reg, id, Len(tok) + 1)

\* a cancel that reports success whether or not it found the id
Cancel_ret_always(reg, id) == TRUE

\* RequestManager::cancel: its return value and the heap after it
Cancel_ret(reg, id) == id \in DOMAIN reg

\* a cancel that sets every token once it has found the id
Cancel_tokens_all(reg, tok, id) ==
    IF id \in DOMAIN reg THEN [t \in DOMAIN tok |-> TRUE] ELSE tok

Cancel_tokens(reg, tok, id) ==
    IF id \in DOMAIN reg THEN Token_cancel(tok, reg[id]) ELSE tok

\* an unregister that removes nothing
Unregister_registry_keep(reg, id) == reg

\* an unregister that clears the flag of the token it removes
Unregister_tokens_reset(reg, tok, id) ==
    IF id \in DOMAIN reg THEN [tok EXCEPT ![reg[id]] = FALSE] ELSE tok

\* RequestManager::unregister: the registry and the heap after it.  remove
\* drops the clone the map held; the flag lives on for the other clones.
Unregister_registry(reg, id) == Map_remove(reg, id)

Unregister_tokens(reg, tok, id) == tok

(***************************************************************************)
(* Context parser (agents/prompt_context.rs) and task detector.            *)
(***************************************************************************)
PromptKeys == {"Comparison", "Description", "Document", "Object", "Last", "All"}

NoneValue == <<>>

\* Option::Some
Some(value) == <<value>>

\* messages of requests
Messages ==
    { "",
      "hello, how are you?",
      "show me the last 5 objects",
      "get all documents for this month",
      "describe this object",
      "compare the last 2 documents" }

ParseFailure == <<"empty", "prompt">>

\* ContextParser::parse
Parse(message) ==
    CASE message = "" ->
           [ok |-> FALSE, err |-> ParseFailure]
      [] message = "hello, how are you?" ->
           [ok |-> TRUE,
            val |-> [keys |-> {}, period |-> NoneValue, amount |-> NoneValue]]
      [] message = "show me the last 5 objects" ->
           [ok |-> TRUE,
            val |-> [keys |-> {"Last", "Object"}, period |-> NoneValue, amount |-> Some(5)]]
      [] message = "get all documents for this month" ->
           [ok |-> TRUE,
            val |-> [keys |-> {"All", "Document"}, period |-> Some("Month"),
                     amount |-> NoneValue]]
      [] message = "describe this object" ->
           [ok |-> TRUE,
            val |-> [keys |-> {"Description", "Object"}, period |-> NoneValue,
                     amount |-> NoneValue]]
      [] message = "compare the last 2 documents" ->
           [ok |-> TRUE,
            val |-> [keys |-> {"Comparison", "Last", "Document"},
                     period |-> NoneValue, amount |-> Some(2)]]

\* the domain keys, which decide the Task, and the values of Period
DomainKeys == {"Comparison", "Description", "Document", "Object"}

Periods == {"Day", "Week", "Month"}

\* the PromptContexts given to detect_task
PromptContexts ==
    [keys : SUBSET PromptKeys,
     period : {NoneValue} \cup {Some(period) : period \in Periods},
     amount : {NoneValue} \cup {Some(amount) : amount \in 1..MaxAmount}]

\* a build_parameters that reads the All key for last
build_parameters_all(context) ==
    [last   |-> "All" \in context.keys,
     all    |-> "All" \in context.keys,
     period |-> context.period,
     amount |-> context.amount]

\* TaskDetector::build_parameters
build_parameters(context) ==
    [last   |-> "Last" \in context.keys,
     all    |-> "All" \in context.keys,
     period |-> context.period,
     amount |-> context.amount]

\* Result::Ok
Ok(value) == [ok |-> TRUE, val |-> value]

\* a detect_task that looks for Document before Comparison
detect_task_document_first(prompt_context) ==
    LET parameters == build_parameters(prompt_context) IN
    IF "Document" \in prompt_context.keys
    THEN Ok([kind |-> "Document", parameters |-> parameters])
    ELSE IF "Comparison" \in prompt_context.keys
    THEN Ok([kind |-> "Comparison", parameters |-> parameters])
    ELSE IF "Description" \in prompt_context.keys
    THEN Ok([kind |-> "Description", parameters |-> parameters])
    ELSE IF "Object" \in prompt_context.keys
    THEN Ok([kind |-> "Object", parameters |-> parameters])
    ELSE Ok([kind |-> "Chat"])

\* TaskDetector::detect_task

detect_task(prompt_context) ==
    LET parameters == build_parameters(prompt_context) IN
    IF "Comparison" \in prompt_context.keys
    THEN Ok([kind |-> "Comparison", parameters |-> parameters])
    ELSE IF "Description" \in prompt_context.keys
    THEN Ok([kind |-> "Description", parameters |-> parameters])
    ELSE IF "Document" \in prompt_context.keys
    THEN Ok([kind |-> "Document", parameters |-> parameters])
    ELSE IF "Object" \in prompt_context.keys
    THEN Ok([kind |-> "Object", parameters |-> parameters])
    ELSE Ok([kind |-> "Chat"])

NoTask == [kind |-> "none"]

(***************************************************************************)
(* StreamEvent.                                                            *)
(***************************************************************************)
TerminalTypes == {"completed", "error", "cancelled"}

IsTerminal(event) == event.type \in TerminalTypes

\* the leading TextChunk of the four non-Chat handlers
LeadText(kind) ==
    CASE kind = "Object"      -> <<"Processing", "object", "request...">>
      [] kind = "Document"    -> <<"Retrieving", "documents...">>
      [] kind = "Description" -> <<"Generating", "description...">>
      [] kind = "Comparison"  -> <<"Performing", "comparison", "analysis...">>

\* the TextChunk that carries the completion
ResultText(kind, response) ==
    CASE kind = "Object"      -> <<"Found", "objects:", response>>
      [] kind = "Document"    -> <<"Document", "results:", response>>
      [] kind = "Description" -> <<"Description:", response>>
      [] kind = "Comparison"  -> <<"Comparison", "results:", response>>

\* the type of the structured chunk of a handler
ChunkType(kind) ==
    CASE kind = "Object"      -> "object_chunk"
      [] kind = "Document"    -> "document_chunk"
      [] kind = "Description" -> "description_chunk"
      [] kind = "Comparison"  -> "comparison_chunk"

\* format!("{:?}", parameters.period)
DebugPeriod(period) ==
    IF period = NoneValue THEN <<"None">> ELSE <<"Some(", period[1], ")">>

\* the "parameters" member of the json!({..}) payload of a handler
StructuredData(parameters) ==
    [parameters |-> [last   |-> parameters.last,
                     all    |-> parameters.all,
                     period |-> DebugPeriod(parameters.period),
                     amount |-> parameters.amount]]

\* response.chars().collect::<Vec<_>>().chunks(chunk_size): the number of
\* chunks of a completion of n characters and the length of the i-th
\* the full chunks only (slice::chunks_exact)
NumChunks_exact(n) == n \div ChunkSize

NumChunks(n) == (n + ChunkSize - 1) \div ChunkSize

ChunkLen(n, i) == IF i * ChunkSize <= n THEN ChunkSize ELSE n - (i - 1) * ChunkSize

VARIABLES
    registry,      \* RequestManager.active_requests
    tokens,        \* the flags of the tokens created so far
    pc,            \* where the task spawned for each request is
    request,       \* AgentRequest.message of each request
    context,       \* AgentContext of each request (request_id, cancellation_token)
    reg_key,       \* the id the task passed to register
    task,          \* the Task detect_task returned
    response,      \* the completion the handler received
    chunk_idx,     \* chunks the Chat handler has sent
    result,        \* the Result of process_request
    calls,         \* what the task has run: parse, detect_task, a handler,
                   \* the inference call, and the checkpoint that failed
    chan,          \* the events buffered in the channel of each request
    rx_open,       \* the receiver of the channel is not dropped
    received,      \* the events the consumer has taken from the channel
    rx_closed,     \* rx.recv() has returned None to the consumer
    lk,            \* SpecLocks: who holds and who waits for each RwLock
    tpc,           \* SpecLocks: the call each task is in, and where
    sent,          \* every send of the task: event, sender, Ok or Err
    cancel_ret,    \* <<what the last cancel_request returned>>
    early_cancel,  \* cancel_request(request_id) was called before check 1
    cancel_resp,   \* <<the response of chat_stream_cancel>>, when the last
                   \* cancel came through the endpoint
    handles,       \* SpecRM: the handles the client holds
    hist,          \* SpecRM: the last two calls, each with the state before it
    dt_ctx,        \* SpecDetect: the PromptContext given to detect_task
    dt_out,        \* SpecDetect: <<what detect_task returned>>
    feed,          \* SpecSSE: the events the sender has still to send
    tx_open,       \* SpecSSE: the sender of the channel is not dropped
    adapter,       \* SpecSSE: where the stream of chat_stream_handler is
    sse,           \* SpecSSE: the SSE messages the stream has yielded
    wire_event,    \* SpecWire: <<the StreamEvent to serialize>>
    wire_json,     \* SpecWire: <<what to_string returned>>
    wire_back      \* SpecWire: <<what from_str returned>>

managerVars == <<registry, tokens>>
taskVars ==
    <<pc, request, context, reg_key, task, response, chunk_idx, result, calls>>
chanVars == <<chan, rx_open, received, sent>>
callerVars == <<cancel_ret, early_cancel, cancel_resp>>
clientVars == <<handles, hist>>
detectVars == <<dt_ctx, dt_out>>
adapterVars == <<feed, tx_open, adapter, sse>>
codecVars == <<wire_event, wire_json, wire_back>>
lockVars == <<lk, tpc>>
otherVars == <<detectVars, adapterVars, codecVars, rx_closed, lockVars>>
vars == <<managerVars, taskVars, chanVars, callerVars, clientVars, otherVars>>

\* the locks: 0 is RequestManager.active_requests, t is the flag of token t
LockNames == 0..MaxLockTokens

Tasks == 1..NumTasks

NoCall == [op |-> "none", arg |-> 0, at |-> "idle"]

NoCalls ==
    [parse |-> 0, detect |-> 0, handler |-> 0, infer |-> 0, cancelled_at |-> 0,
     agent |-> "none"]
NoPromptContext == [keys |-> {}, period |-> NoneValue, amount |-> NoneValue]

NoContext == [request_id |-> UnknownId, cancellation_token |-> 0]
NoResult == [ok |-> FALSE, err |-> <<>>]

InitBase ==
    /\ registry = <<>>
    /\ tokens = <<>>
    /\ pc = [r \in Requests |-> "idle"]
    /\ request = [r \in Requests |-> ""]
    /\ context = [r \in Requests |-> NoContext]
    /\ reg_key = [r \in Requests |-> UnknownId]
    /\ task = [r \in Requests |-> NoTask]
    /\ response = [r \in Requests |-> 0]
    /\ chunk_idx = [r \in Requests |-> 0]
    /\ result = [r \in Requests |-> NoResult]
    /\ calls = [r \in Requests |-> NoCalls]
    /\ chan = [r \in Requests |-> <<>>]
    /\ rx_open = [r \in Requests |-> TRUE]
    /\ received = [r \in Requests |-> <<>>]
    /\ rx_closed = [r \in Requests |-> FALSE]
    /\ lk = [l \in LockNames |-> [held |-> {}, queue |-> <<>>]]
    /\ tpc = [p \in Tasks |-> NoCall]
    /\ sent = [r \in Requests |-> <<>>]
    /\ cancel_ret = <<>>
    /\ early_cancel = [r \in Requests |-> FALSE]
    /\ cancel_resp = <<>>
    /\ handles = <<>>
    /\ hist = <<>>
    /\ dt_out = <<>>
    /\ tx_open = TRUE
    /\ sse = <<>>
    /\ wire_json = <<>>
    /\ wire_back = <<>>

Init ==
    /\ InitBase
    /\ dt_ctx = NoPromptContext
    /\ wire_event = <<>>
    /\ feed = <<>>
    /\ adapter = "off"

(***************************************************************************)
(* The channel.  tx.send(event).await waits while the channel is full and  *)
(* the receiver exists; it returns Err, and the event is lost, when the    *)
(* receiver is dropped.  `let _ =` discards the result.                    *)
(***************************************************************************)
CanSend(r) == ~rx_open[r] \/ Len(chan[r]) < ChannelCapacity

\* a send that puts the event at the head of the queue
Send_front(r, event, by) ==
    /\ CanSend(r)
    /\ chan' = [chan EXCEPT ![r] = IF rx_open[r] THEN <<event>> \o @ ELSE @]
    /\ sent' = [sent EXCEPT ![r] =
                   Append(@, [event |-> event, by |-> by, ok |-> rx_open[r]])]
    /\ UNCHANGED <<rx_open, received>>

\* tx.send(event).await
Send(r, event, by) ==
    /\ CanSend(r)
    /\ chan' = [chan EXCEPT ![r] = IF rx_open[r] THEN Append(@, event) ELSE @]
    /\ sent' = [sent EXCEPT ![r] =
                   Append(@, [event |-> event, by |-> by, ok |-> rx_open[r]])]
    /\ UNCHANGED <<rx_open, received>>

(***************************************************************************)
(* MasterAgent::handle_request_stream and the task it spawns.              *)
(***************************************************************************)

\* handle_request_stream: creates the channel, spawns the task, returns rx
Submit(r, message) ==
    /\ pc[r] = "idle"
    /\ \A q \in Requests : q < r => pc[q] # "idle"
    /\ pc' = [pc EXCEPT ![r] = "register"]
    /\ request' = [request EXCEPT ![r] = message]
    /\ UNCHANGED <<managerVars, context, reg_key, task, response, chunk_idx,
                   result, chanVars, callerVars, clientVars, calls, otherVars>>

\* request_manager.register(Uuid::now_v7().to_string()).await
Register(r) ==
    /\ pc[r] = "register"
    /\ LET id == NewUuid(r, 1) IN
         /\ tokens' = Register_tokens(tokens)
         /\ registry' = Register_registry(registry, tokens, id)
         /\ reg_key' = [reg_key EXCEPT ![r] = id]
         /\ context' = [context EXCEPT ![r].cancellation_token = Len(tokens')]
    /\ pc' = [pc EXCEPT ![r] = "started"]
    /\ UNCHANGED <<request, task, response, chunk_idx, result, chanVars,
                   callerVars, clientVars, calls, otherVars>>

\* AgentContext::from_request (request_id: Uuid::now_v7()), then the send
\* of Started
SendStarted(r) ==
    /\ pc[r] = "started"
    /\ LET request_id == NewUuid(r, 2) IN
         /\ context' = [context EXCEPT ![r].request_id = request_id]
         /\ Send(r, [type |-> "started", request_id |-> request_id,
                     timestamp |-> Now],
                 "orchestrator")
    /\ pc' = [pc EXCEPT ![r] = "thinking"]
    /\ UNCHANGED <<managerVars, request, reg_key, task, response, chunk_idx,
                   result, callerVars, clientVars, calls, otherVars>>

\* a process_request that goes to its first checkpoint without the send
SendThinking_skipped(r) ==
    /\ pc[r] = "thinking"
    /\ pc' = [pc EXCEPT ![r] = "check1"]
    /\ UNCHANGED <<managerVars, request, context, reg_key, task, response,
                   chunk_idx, result, chanVars, callerVars, clientVars, calls,
                   otherVars>>

\* process_request: the send of CoordinatorThinking
SendThinking(r) ==
    /\ pc[r] = "thinking"
    /\ Send(r, [type |-> "coordinator_thinking",
                request_id |-> context[r].request_id,
                message |-> <<"Analyzing", "request">>], "orchestrator")
    /\ pc' = [pc EXCEPT ![r] = "check1"]
    /\ UNCHANGED <<managerVars, request, context, reg_key, task, response,
                   chunk_idx, result, callerVars, clientVars, calls, otherVars>>

\* a first checkpoint that answers a parse failure with the Chat task
Checkpoint1_falls_back(r) ==
    /\ pc[r] = "check1"
    /\ LET checked == Token_check(tokens, context[r].cancellation_token)
           parsed == Parse(request[r])
       IN  IF ~checked.ok
           THEN /\ result' = [result EXCEPT ![r] = checked]
                /\ pc' = [pc EXCEPT ![r] = "final"]
                /\ task' = task
                /\ calls' = [calls EXCEPT ![r].cancelled_at = 1]
           ELSE IF ~parsed.ok
           THEN /\ result' = result
                /\ pc' = [pc EXCEPT ![r] = "check2"]
                /\ task' = [task EXCEPT ![r] = [kind |-> "Chat"]]
                /\ calls' = [calls EXCEPT ![r].parse = @ + 1]
           ELSE /\ calls' = [calls EXCEPT ![r].parse = @ + 1,
                                          ![r].detect = @ + 1]
                /\ task' = [task EXCEPT ![r] = detect_task(parsed.val).val]
                /\ pc' = [pc EXCEPT ![r] = "check2"]
                /\ result' = result
    /\ UNCHANGED <<managerVars, request, context, reg_key, response, chunk_idx,
                   chanVars, callerVars, clientVars, otherVars>>

\* process_request: the first check()?, parse(..)? and detect_task(..)?
Checkpoint1(r) ==
    /\ pc[r] = "check1"
    /\ LET checked == Token_check(tokens, context[r].cancellation_token)
           parsed == Parse(request[r])
       IN  IF ~checked.ok
           THEN /\ result' = [result EXCEPT ![r] = checked]
                /\ pc' = [pc EXCEPT ![r] = "final"]
                /\ task' = task
                /\ calls' = [calls EXCEPT ![r].cancelled_at = 1]
           ELSE IF ~parsed.ok
           THEN /\ result' = [result EXCEPT ![r] = parsed]
                /\ pc' = [pc EXCEPT ![r] = "final"]
                /\ task' = task
                /\ calls' = [calls EXCEPT ![r].parse = @ + 1]
           ELSE LET detected == detect_task(parsed.val) IN
                /\ calls' = [calls EXCEPT ![r].parse = @ + 1,
                                          ![r].detect = @ + 1]
                /\ IF ~detected.ok
                   THEN /\ result' = [result EXCEPT ![r] = detected]
                        /\ pc' = [pc EXCEPT ![r] = "final"]
                        /\ task' = task
                   ELSE /\ task' = [task EXCEPT ![r] = detected.val]
                        /\ pc' = [pc EXCEPT ![r] = "check2"]
                        /\ result' = result
    /\ UNCHANGED <<managerVars, request, context, reg_key, response, chunk_idx,
                   chanVars, callerVars, clientVars, otherVars>>

\* a match that sends Document tasks to the ObjectAgent
Dispatch_object_for_document(t) ==
    CASE t.kind = "Object"      -> "ObjectAgent"
      [] t.kind = "Document"    -> "ObjectAgent"
      [] t.kind = "Description" -> "DescriptionAgent"
      [] t.kind = "Comparison"  -> "ComparisonAgent"
      [] t.kind = "Chat"        -> "ChatAgent"

\* process_request: match task { .. }, the agent each arm creates
Dispatch(t) ==
    CASE t.kind = "Object"      -> "ObjectAgent"
      [] t.kind = "Document"    -> "DocumentAgent"
      [] t.kind = "Description" -> "DescriptionAgent"
      [] t.kind = "Comparison"  -> "ComparisonAgent"
      [] t.kind = "Chat"        -> "ChatAgent"

\* the Task variant an agent is written for
AgentKind(agent) ==
    CASE agent = "ObjectAgent"      -> "Object"
      [] agent = "DocumentAgent"    -> "Document"
      [] agent = "DescriptionAgent" -> "Description"
      [] agent = "ComparisonAgent"  -> "Comparison"
      [] agent = "ChatAgent"        -> "Chat"

\* a process_request without its second check()
Checkpoint2_unchecked(r) ==
    /\ pc[r] = "check2"
    /\ pc' = [pc EXCEPT ![r] =
                 IF Dispatch(task[r]) = "ChatAgent" THEN "infer" ELSE "lead"]
    /\ calls' = [calls EXCEPT ![r].handler = @ + 1,
                              ![r].agent = Dispatch(task[r])]
    /\ UNCHANGED <<managerVars, request, context, reg_key, task, response,
                   chunk_idx, result, chanVars, callerVars, clientVars, otherVars>>

\* process_request: the second check()? and the match on the task
Checkpoint2(r) ==
    /\ pc[r] = "check2"
    /\ LET checked == Token_check(tokens, context[r].cancellation_token)
       IN  IF ~checked.ok
           THEN /\ result' = [result EXCEPT ![r] = checked]
                /\ pc' = [pc EXCEPT ![r] = "final"]
                /\ calls' = [calls EXCEPT ![r].cancelled_at = 2]
           ELSE /\ pc' = [pc EXCEPT ![r] =
                             IF Dispatch(task[r]) = "ChatAgent"
                             THEN "infer" ELSE "lead"]
                /\ result' = result
                /\ calls' = [calls EXCEPT ![r].handler = @ + 1,
                                          ![r].agent = Dispatch(task[r])]
    /\ UNCHANGED <<managerVars, request, context, reg_key, task, response,
                   chunk_idx, chanVars, callerVars, clientVars, otherVars>>

\* execute of the four non-Chat handlers: the initial TextChunk
HandlerLead(r) ==
    /\ pc[r] = "lead"
    /\ Send(r, [type |-> "text_chunk", request_id |-> context[r].request_id,
                chunk |-> LeadText(AgentKind(calls[r].agent))], "handler")
    /\ pc' = [pc EXCEPT ![r] = "infer"]
    /\ UNCHANGED <<managerVars, request, context, reg_key, task, response,
                   chunk_idx, result, callerVars, clientVars, calls, otherVars>>

\* execute: agent.prompt(..).await returns Ok(response)
InferenceOk(r, n) ==
    /\ pc[r] = "infer"
    /\ response' = [response EXCEPT ![r] = n]
    /\ chunk_idx' = [chunk_idx EXCEPT ![r] = 0]
    /\ calls' = [calls EXCEPT ![r].infer = @ + 1]
    /\ IF calls[r].agent = "ChatAgent" /\ NumChunks(n) = 0
       THEN /\ result' = [result EXCEPT ![r] = [ok |-> TRUE, val |-> n]]
            /\ pc' = [pc EXCEPT ![r] = "final"]
       ELSE /\ result' = result
            /\ pc' = [pc EXCEPT ![r] =
                         IF calls[r].agent = "ChatAgent" THEN "chunk" ELSE "text"]
    /\ UNCHANGED <<managerVars, request, context, reg_key, task, chanVars,
                   callerVars, clientVars, otherVars>>

\* a handler that reports its failure with an Error event of its own
InferenceErr_emits(r, e) ==
    /\ pc[r] = "infer"
    /\ Send(r, [type |-> "error", request_id |-> context[r].request_id,
                error |-> e, recoverable |-> FALSE], "handler")
    /\ result' = [result EXCEPT ![r] = [ok |-> FALSE, err |-> e]]
    /\ calls' = [calls EXCEPT ![r].infer = @ + 1]
    /\ pc' = [pc EXCEPT ![r] = "final"]
    /\ UNCHANGED <<managerVars, request, context, reg_key, task, response,
                   chunk_idx, callerVars, clientVars, otherVars>>

\* a handler that calls the inference a second time after a failure
InferenceErr_retries(r, e) ==
    /\ pc[r] = "infer"
    /\ calls' = [calls EXCEPT ![r].infer = @ + 1]
    /\ IF calls[r].infer = 0
       THEN UNCHANGED <<result, pc>>
       ELSE /\ result' = [result EXCEPT ![r] = [ok |-> FALSE, err |-> e]]
            /\ pc' = [pc EXCEPT ![r] = "final"]
    /\ UNCHANGED <<managerVars, request, context, reg_key, task, response,
                   chunk_idx, chanVars, callerVars, clientVars, otherVars>>

\* execute: agent.prompt(..).await? returns Err(e), which `?` propagates
\* through process_request
InferenceErr(r, e) ==
    /\ pc[r] = "infer"
    /\ result' = [result EXCEPT ![r] = [ok |-> FALSE, err |-> e]]
    /\ calls' = [calls EXCEPT ![r].infer = @ + 1]
    /\ pc' = [pc EXCEPT ![r] = "final"]
    /\ UNCHANGED <<managerVars, request, context, reg_key, task, response,
                   chunk_idx, chanVars, callerVars, clientVars, otherVars>>

\* execute of the four non-Chat handlers: the TextChunk with the completion
HandlerText(r) ==
    /\ pc[r] = "text"
    /\ Send(r, [type |-> "text_chunk", request_id |-> context[r].request_id,
                chunk |-> ResultText(AgentKind(calls[r].agent), response[r])],
            "handler")
    /\ pc' = [pc EXCEPT ![r] = "data"]
    /\ UNCHANGED <<managerVars, request, context, reg_key, task, response,
                   chunk_idx, result, callerVars, clientVars, calls, otherVars>>

\* a handler that returns only the first chunk_size characters of the
\* completion
HandlerData_truncates(r) ==
    /\ pc[r] = "data"
    /\ Send(r, [type |-> ChunkType(AgentKind(calls[r].agent)),
                request_id |-> context[r].request_id,
                data |-> StructuredData(task[r].parameters)], "handler")
    /\ result' = [result EXCEPT ![r] =
                     [ok |-> TRUE,
                      val |-> IF response[r] > ChunkSize
                              THEN ChunkSize ELSE response[r]]]
    /\ pc' = [pc EXCEPT ![r] = "final"]
    /\ UNCHANGED <<managerVars, request, context, reg_key, task, response,
                   chunk_idx, callerVars, clientVars, calls, otherVars>>

\* execute of the four non-Chat handlers: the structured chunk, Ok(response)
HandlerData(r) ==
    /\ pc[r] = "data"
    /\ Send(r, [type |-> ChunkType(AgentKind(calls[r].agent)),
                request_id |-> context[r].request_id,
                data |-> StructuredData(task[r].parameters)], "handler")
    /\ result' = [result EXCEPT ![r] = [ok |-> TRUE, val |-> response[r]]]
    /\ pc' = [pc EXCEPT ![r] = "final"]
    /\ UNCHANGED <<managerVars, request, context, reg_key, task, response,
                   chunk_idx, callerVars, clientVars, calls, otherVars>>

\* ChatAgent::execute: one turn of the loop over the chunks, Ok(response)
\* after the last
ChatChunk(r) ==
    /\ pc[r] = "chunk"
    /\ LET i == chunk_idx[r] + 1 IN
         /\ Send(r, [type |-> "text_chunk", request_id |-> context[r].request_id,
                     chunk |-> <<(i - 1) * ChunkSize, ChunkLen(response[r], i)>>],
                 "handler")
         /\ chunk_idx' = [chunk_idx EXCEPT ![r] = i]
         /\ IF i = NumChunks(response[r])
            THEN /\ result' = [result EXCEPT ![r] =
                                  [ok |-> TRUE, val |-> response[r]]]
                 /\ pc' = [pc EXCEPT ![r] = "final"]
            ELSE /\ result' = result
                 /\ pc' = pc
    /\ UNCHANGED <<managerVars, request, context, reg_key, task, response,
                   callerVars, clientVars, calls, otherVars>>

\* the terminal event handle_request_stream sends for a result
FinalEvent(request_id, res) ==
    IF res.ok
    THEN [type |-> "completed", request_id |-> request_id,
          final_result |-> res.val, timestamp |-> Now]
    ELSE IF Contains(res.err, "cancelled")
    THEN [type |-> "cancelled", request_id |-> request_id,
          reason |-> <<"User", "cancelled">>]
    ELSE [type |-> "error", request_id |-> request_id, error |-> res.err,
          recoverable |-> FALSE]

\* handle_request_stream: match result { .. }
SendFinal(r) ==
    /\ pc[r] = "final"
    /\ Send(r, FinalEvent(context[r].request_id, result[r]), "orchestrator")
    /\ pc' = [pc EXCEPT ![r] = "unregister"]
    /\ UNCHANGED <<managerVars, request, context, reg_key, task, response,
                   chunk_idx, result, callerVars, clientVars, calls, otherVars>>

\* handle_request_stream: request_manager.unregister(&request_id).await,
\* the end of the task
Unregister(r) ==
    /\ pc[r] = "unregister"
    /\ registry' = Unregister_registry(registry, context[r].request_id)
    /\ tokens' = Unregister_tokens(registry, tokens, context[r].request_id)
    /\ pc' = [pc EXCEPT ![r] = "done"]
    /\ UNCHANGED <<request, context, reg_key, task, response, chunk_idx,
                   result, chanVars, callerVars, clientVars, calls, otherVars>>

(***************************************************************************)
(* The callers of MasterAgent::cancel_request and the consumers.           *)
(***************************************************************************)

\* the window of the cancel calls "before the first checkpoint"
BeforeCheck1(r) == pc[r] \in {"thinking", "check1"}

\* MasterAgent::cancel_request, called directly
CancelRequest(id) ==
    /\ cancel_ret' = <<Cancel_ret(registry, id)>>
    /\ tokens' = Cancel_tokens(registry, tokens, id)
    /\ early_cancel' =
          [r \in Requests |->
              early_cancel[r] \/ (BeforeCheck1(r) /\ id = context[r].request_id)]
    /\ cancel_resp' = <<>>
    /\ UNCHANGED <<registry, taskVars, chanVars, clientVars, otherVars>>

\* the two responses of chat_stream_cancel: Ok(Json(CancelResponse)), which
\* axum sends with status 200, and Err((NOT_FOUND, Json(CancelErrorResponse)))
CancelResponse(cancelled, request_id) ==
    IF cancelled
    THEN [ok |-> TRUE, status |-> 200,
          body |-> [success |-> TRUE, request_id |-> request_id,
                    message |-> <<"Request", request_id, "cancelled",
                                  "successfully">>]]
    ELSE [ok |-> FALSE, status |-> 404,
          body |-> [error |-> "NOT_FOUND",
                    message |-> <<"Request", request_id, "not", "found", "or",
                                  "already", "completed">>]]

\* chat_stream_cancel: DELETE /api/chat/cancel/:request_id
ChatStreamCancel(id) ==
    /\ cancel_ret' = <<Cancel_ret(registry, id)>>
    /\ tokens' = Cancel_tokens(registry, tokens, id)
    /\ early_cancel' =
          [r \in Requests |->
              early_cancel[r] \/ (BeforeCheck1(r) /\ id = context[r].request_id)]
    /\ cancel_resp' = <<CancelResponse(Cancel_ret(registry, id), id)>>
    /\ UNCHANGED <<registry, taskVars, chanVars, clientVars, otherVars>>

\* rx.recv().await returns Some(event)
Recv(r) ==
    /\ rx_open[r]
    /\ ~rx_closed[r]
    /\ chan[r] # <<>>
    /\ received' = [received EXCEPT ![r] = Append(@, Head(chan[r]))]
    /\ chan' = [chan EXCEPT ![r] = Tail(@)]
    /\ UNCHANGED <<managerVars, taskVars, rx_open, sent, callerVars, clientVars, otherVars>>

\* a task that keeps a sender of its channel for ever
SendersDropped_never(r) == FALSE

\* the task has ended: its tx, and the clone the handler had, are dropped
SendersDropped(r) == pc[r] = "done"

\* rx.recv().await returns None: every sender is dropped and the channel
\* is empty; the loop of the consumer ends
RecvClosed(r) ==
    /\ rx_open[r]
    /\ ~rx_closed[r]
    /\ chan[r] = <<>>
    /\ SendersDropped(r)
    /\ rx_closed' = [rx_closed EXCEPT ![r] = TRUE]
    /\ UNCHANGED <<managerVars, taskVars, chanVars, callerVars, clientVars,
                   detectVars, adapterVars, codecVars, lockVars>>

\* the consumer drops rx; the events still buffered are lost
DropReceiver(r) ==
    /\ pc[r] # "idle"
    /\ rx_open[r]
    /\ ~rx_closed[r]
    /\ rx_open' = [rx_open EXCEPT ![r] = FALSE]
    /\ chan' = [chan EXCEPT ![r] = <<>>]
    /\ UNCHANGED <<managerVars, taskVars, received, sent, callerVars, clientVars, otherVars>>

TaskStepWith(r, lengths, errors) ==
    \/ Register(r)
    \/ SendStarted(r)
    \/ SendThinking(r)
    \/ Checkpoint1(r)
    \/ Checkpoint2(r)
    \/ HandlerLead(r)
    \/ \E n \in lengths : InferenceOk(r, n)
    \/ \E e \in errors : InferenceErr(r, e)
    \/ HandlerText(r)
    \/ HandlerData(r)
    \/ ChatChunk(r)
    \/ SendFinal(r)
    \/ Unregister(r)

TaskStep(r) == TaskStepWith(r, ResponseLengths, InferenceErrors)

(***************************************************************************)
(* Spec: one request, its consumer and the callers of cancel_request.      *)
(***************************************************************************)
Next ==
    \/ \E message \in Messages : Submit(1, message)
    \/ TaskStep(1)
    \/ \E id \in CancelIds : CancelRequest(id)
    \/ \E id \in CancelIds : ChatStreamCancel(id)
    \/ Recv(1)
    \/ RecvClosed(1)
    \/ DropReceiver(1)

Spec == Init /\ [][Next]_vars

\* tokio polls every task that is ready: the task of the request takes its
\* next step whenever it can, and the inference call returns.  Nothing makes
\* a consumer read or a caller cancel.
FairSpec == Spec /\ WF_vars(TaskStep(1))

(***************************************************************************)
(* SpecDrain: one request whose consumer is the loop                       *)
(* `while let Some(event) = rx.recv().await`: it keeps rx and takes what   *)
(* recv gives until recv returns None.  The task and the consumer are both *)
(* polled whenever they can go on.                                         *)
(***************************************************************************)
NextDrain ==
    \/ \E message \in Messages : Submit(1, message)
    \/ TaskStep(1)
    \/ \E id \in CancelIds : CancelRequest(id)
    \/ Recv(1)
    \/ RecvClosed(1)

SpecDrain ==
    /\ Init
    /\ [][NextDrain]_vars
    /\ WF_vars(TaskStep(1))
    /\ WF_vars(Recv(1) \/ RecvClosed(1))

(***************************************************************************)
(* SpecMany: NumRequests requests, at most MaxInFlight of them in flight   *)
(* together, and the callers of cancel_request; the consumers have not     *)
(* read their channels yet.                                                *)
(***************************************************************************)
ManyMessages == <<"hello, how are you?", "show me the last 5 objects", "">>

\* the message of request r: a chat, a request for objects, an empty prompt
ManyMessage(r) == ManyMessages[((r - 1) % Len(ManyMessages)) + 1]

ManyLengths == {30}

ManyErrors == { <<"connection", "refused">> }

\* the tasks that were spawned and have not ended
Running == {r \in Requests : pc[r] \notin {"idle", "done"}}

NextMany ==
    \/ \E r \in Requests :
          /\ Cardinality(Running) < MaxInFlight
          /\ Submit(r, ManyMessage(r))
    \/ \E r \in Requests : TaskStepWith(r, ManyLengths, ManyErrors)
    \/ \E id \in CancelIds : CancelRequest(id)

SpecMany == Init /\ [][NextMany]_vars

(***************************************************************************)
(* SpecRM: a client of RequestManager and CancellationToken.  It keeps the *)
(* handles register returns and their clones, and hist keeps its last two  *)
(* calls: the method, its argument, what it returned, and the registry,    *)
(* the heap and the handles before the call.                               *)
(***************************************************************************)
RMIds == 1..NumIds

Call(op, arg, ret) ==
    [op |-> op, arg |-> arg, ret |-> ret,
     registry |-> registry, tokens |-> tokens, handles |-> handles]

Record(call) ==
    hist' = IF Len(hist) < 2 THEN Append(hist, call) ELSE <<hist[2], call>>

\* RequestManager::register
RM_register(id) ==
    /\ Len(tokens) < MaxTokens
    /\ tokens' = Register_tokens(tokens)
    /\ registry' = Register_registry(registry, tokens, id)
    /\ handles' = IF Len(handles) < MaxHandles
                  THEN Append(handles, Len(tokens'))
                  ELSE handles
    /\ Record(Call("register", id, Len(tokens')))
    /\ UNCHANGED <<taskVars, chanVars, callerVars, otherVars>>

\* RequestManager::cancel
RM_cancel(id) ==
    /\ tokens' = Cancel_tokens(registry, tokens, id)
    /\ Record(Call("cancel", id, Cancel_ret(registry, id)))
    /\ UNCHANGED <<registry, handles, taskVars, chanVars, callerVars, otherVars>>

\* RequestManager::unregister
RM_unregister(id) ==
    /\ registry' = Unregister_registry(registry, id)
    /\ tokens' = Unregister_tokens(registry, tokens, id)
    /\ Record(Call("unregister", id, "unit"))
    /\ UNCHANGED <<handles, taskVars, chanVars, callerVars, otherVars>>

\* CancellationToken::cancel on a handle
Tok_cancel(h) ==
    /\ tokens' = Token_cancel(tokens, handles[h])
    /\ Record(Call("token_cancel", h, "unit"))
    /\ UNCHANGED <<registry, handles, taskVars, chanVars, callerVars, otherVars>>

\* CancellationToken::is_cancelled on a handle
Tok_is_cancelled(h) ==
    /\ Record(Call("is_cancelled", h, Token_is_cancelled(tokens, handles[h])))
    /\ UNCHANGED <<managerVars, handles, taskVars, chanVars, callerVars, otherVars>>

\* CancellationToken::check on a handle
Tok_check(h) ==
    /\ Record(Call("check", h, Token_check(tokens, handles[h])))
    /\ UNCHANGED <<managerVars, handles, taskVars, chanVars, callerVars, otherVars>>

\* CancellationToken::clone (derive(Clone)): another handle on the same flag
Tok_clone(h) ==
    /\ Len(handles) < MaxHandles
    /\ handles' = Append(handles, handles[h])
    /\ Record(Call("clone", h, Len(handles')))
    /\ UNCHANGED <<managerVars, taskVars, chanVars, callerVars, otherVars>>

NextRM ==
    \/ \E id \in RMIds : RM_register(id)
    \/ \E id \in RMIds : RM_cancel(id)
    \/ \E id \in RMIds : RM_unregister(id)
    \/ \E h \in DOMAIN handles : Tok_cancel(h)
    \/ \E h \in DOMAIN handles : Tok_is_cancelled(h)
    \/ \E h \in DOMAIN handles : Tok_check(h)
    \/ \E h \in DOMAIN handles : Tok_clone(h)

SpecRM == Init /\ [][NextRM]_vars

(***************************************************************************)
(* SpecLocks: the locks of RequestManager and CancellationToken.  Both are *)
(* tokio::sync::RwLock, which serves its waiters in the order they came: a *)
(* read is granted when no writer holds the lock and nobody waits, a write *)
(* when nobody holds it and nobody waits, and a release grants the lock to *)
(* the waiters at the head of the queue.  NumTasks tasks call the methods  *)
(* in any order; `.await` on a lock is the point where a task waits.       *)
(***************************************************************************)
Compatible(held, mode) ==
    IF mode = "write" THEN held = {} ELSE \A h \in held : h[2] = "read"

\* RwLock::read().await / write().await by task p: granted or queued
lk_Acquire(L, l, p, mode) ==
    [L EXCEPT ![l] =
        IF @.queue = <<>> /\ Compatible(@.held, mode)
        THEN [held |-> @.held \cup {<<p, mode>>}, queue |-> @.queue]
        ELSE [held |-> @.held, queue |-> Append(@.queue, <<p, mode>>)]]

RECURSIVE Grant(_, _)
Grant(held, queue) ==
    IF queue # <<>> /\ Compatible(held, Head(queue)[2])
    THEN Grant(held \cup {Head(queue)}, Tail(queue))
    ELSE [held |-> held, queue |-> queue]

\* the guard of task p on lock l is dropped
lk_Release(L, l, p) ==
    [L EXCEPT ![l] = Grant(@.held \ {<<p, "read">>, <<p, "write">>}, @.queue)]

Holds(p, l) == \E h \in lk[l].held : h[1] = p

Waits(p, l) == \E i \in 1..Len(lk[l].queue) : lk[l].queue[i][1] = p

\* a check whose read guard lives until the handler returns
AfterRead_keeps(L, t, p) == L

\* is_cancelled: the read guard is a temporary of the expression
AfterRead(L, t, p) == lk_Release(L, t, p)

\* the first lock a method takes
FirstLock(op, arg) ==
    IF op \in {"register", "cancel", "unregister"} THEN 0 ELSE arg

FirstMode(op) ==
    IF op \in {"register", "unregister", "token_cancel"} THEN "write" ELSE "read"

\* the request id the tasks use: every id goes through the one lock of the
\* registry
LockIds == {1}

LockOps ==
    {"register", "cancel", "unregister", "token_cancel", "is_cancelled", "check"}

\* task p calls a method and reaches the `.await` of its first lock
L_Call(p, op, arg) ==
    /\ tpc[p].at = "idle"
    /\ IF op \in {"register", "cancel", "unregister"}
       THEN arg \in LockIds
       ELSE arg \in 1..Len(tokens)
    /\ op = "register" =>
          Len(tokens) + Cardinality({q \in Tasks : tpc[q].op = "register"})
             < MaxLockTokens
    /\ lk' = lk_Acquire(lk, FirstLock(op, arg), p, FirstMode(op))
    /\ tpc' = [tpc EXCEPT ![p] = [op |-> op, arg |-> arg, at |-> "lock1"]]
    /\ UNCHANGED <<managerVars, taskVars, chanVars, callerVars, clientVars,
                   detectVars, adapterVars, codecVars, rx_closed>>

\* task p has its first lock: the body of the method up to its return or,
\* in RequestManager::cancel, up to token.cancel().await.  check() is the
\* one of process_request: the task then waits for its handler or a send.
L_Body(p) ==
    /\ tpc[p].at = "lock1"
    /\ Holds(p, FirstLock(tpc[p].op, tpc[p].arg))
    /\ LET op == tpc[p].op
           arg == tpc[p].arg
       IN CASE op = "register" ->
                 /\ tokens' = Register_tokens(tokens)
                 /\ registry' = Register_registry(registry, tokens, arg)
                 /\ lk' = lk_Release(lk, 0, p)
                 /\ tpc' = [tpc EXCEPT ![p] = NoCall]
            [] op = "unregister" ->
                 /\ registry' = Unregister_registry(registry, arg)
                 /\ tokens' = Unregister_tokens(registry, tokens, arg)
                 /\ lk' = lk_Release(lk, 0, p)
                 /\ tpc' = [tpc EXCEPT ![p] = NoCall]
            [] op = "cancel" ->
                 /\ UNCHANGED managerVars
                 /\ IF Cancel_ret(registry, arg)
                    THEN /\ lk' = lk_Acquire(lk, registry[arg], p, "write")
                         /\ tpc' = [tpc EXCEPT ![p].at = "lock2"]
                    ELSE /\ lk' = lk_Release(lk, 0, p)
                         /\ tpc' = [tpc EXCEPT ![p] = NoCall]
            [] op = "token_cancel" ->
                 /\ tokens' = Token_cancel(tokens, arg)
                 /\ registry' = registry
                 /\ lk' = lk_Release(lk, arg, p)
                 /\ tpc' = [tpc EXCEPT ![p] = NoCall]
            [] op = "is_cancelled" ->
                 /\ UNCHANGED managerVars
                 /\ lk' = lk_Release(lk, arg, p)
                 /\ tpc' = [tpc EXCEPT ![p] = NoCall]
            [] op = "check" ->
                 /\ UNCHANGED managerVars
                 /\ lk' = AfterRead(lk, arg, p)
                 /\ tpc' = [tpc EXCEPT ![p].at = "suspended"]
    /\ UNCHANGED <<taskVars, chanVars, callerVars, clientVars,
                   detectVars, adapterVars, codecVars, rx_closed>>

\* RequestManager::cancel has the write lock of the token: sets the flag,
\* drops the token's guard, returns true and drops the registry's guard
L_CancelFound(p) ==
    /\ tpc[p].at = "lock2"
    /\ Holds(p, registry[tpc[p].arg])
    /\ tokens' = Cancel_tokens(registry, tokens, tpc[p].arg)
    /\ registry' = registry
    /\ lk' = lk_Release(lk_Release(lk, registry[tpc[p].arg], p), 0, p)
    /\ tpc' = [tpc EXCEPT ![p] = NoCall]
    /\ UNCHANGED <<taskVars, chanVars, callerVars, clientVars,
                   detectVars, adapterVars, codecVars, rx_closed>>

\* the orchestrator's wait on the inference call or on a send ends
L_Resume(p) ==
    /\ tpc[p].at = "suspended"
    /\ tpc' = [tpc EXCEPT ![p] = NoCall]
    /\ UNCHANGED <<lk, managerVars, taskVars, chanVars, callerVars, clientVars,
                   detectVars, adapterVars, codecVars, rx_closed>>

NextLocks ==
    \/ \E p \in Tasks, op \in LockOps, arg \in LockIds \cup LockNames :
          L_Call(p, op, arg)
    \/ \E p \in Tasks : (L_Body(p) \/ L_CancelFound(p))
    \/ \E p \in Tasks : L_Resume(p)

\* a task that holds the lock it waited for is polled; nothing makes a task
\* call a method, and nothing makes the inference call or a send return
SpecLocks ==
    /\ Init
    /\ [][NextLocks]_vars
    /\ \A p \in Tasks : WF_vars((L_Body(p) \/ L_CancelFound(p)))

(***************************************************************************)
(* SpecDetect: TaskDetector::detect_task applied to a PromptContext.       *)
(***************************************************************************)
InitDetect ==
    /\ InitBase
    /\ dt_ctx \in PromptContexts
    /\ wire_event = <<>>
    /\ feed = <<>>
    /\ adapter = "off"

\* detector.detect_task(&prompt_context, ..)
Detect ==
    /\ dt_out = <<>>
    /\ dt_out' = <<detect_task(dt_ctx)>>
    /\ UNCHANGED <<managerVars, taskVars, chanVars, callerVars, clientVars,
                   dt_ctx, adapterVars, codecVars, rx_closed, lockVars>>

NextDetect == Detect

SpecDetect == InitDetect /\ [][NextDetect]_vars

(***************************************************************************)
(* SpecSSE: chat_stream_handler reading a channel.  The producer is any    *)
(* holder of the Sender: it sends the events of feed, in order, whatever   *)
(* they are, and drops the Sender after the last.                          *)
(***************************************************************************)
\* the names of the variants of StreamEvent, in snake_case
VariantNames ==
    {"started", "coordinator_thinking", "text_chunk", "object_chunk",
     "document_chunk", "description_chunk", "comparison_chunk", "completed",
     "error", "cancelled"}

\* a StreamEvent whose Error variant leaves its recoverable field out
Fields_skips(type) ==
    CASE type = "started"              -> <<"request_id", "timestamp">>
      [] type = "coordinator_thinking" -> <<"request_id", "message">>
      [] type = "text_chunk"           -> <<"request_id", "chunk">>
      [] type = "completed"            -> <<"request_id", "final_result", "timestamp">>
      [] type = "error"                -> <<"request_id", "error">>
      [] type = "cancelled"            -> <<"request_id", "reason">>
      [] OTHER                         -> <<"request_id", "data">>

\* the fields of a StreamEvent in the order of their declaration, after
\* the tag
Fields(type) ==
    CASE type = "started"              -> <<"request_id", "timestamp">>
      [] type = "coordinator_thinking" -> <<"request_id", "message">>
      [] type = "text_chunk"           -> <<"request_id", "chunk">>
      [] type = "completed"            -> <<"request_id", "final_result", "timestamp">>
      [] type = "error"                -> <<"request_id", "error", "recoverable">>
      [] type = "cancelled"            -> <<"request_id", "reason">>
      [] OTHER                         -> <<"request_id", "data">>

\* serde_json::to_string(&event): the members of the JSON object, the tag
\* "type" first (serde(tag = "type", rename_all = "snake_case"))
to_string(event) ==
    Ok([i \in 1..(Len(Fields(event.type)) + 1) |->
           IF i = 1
           THEN <<"type", event.type>>
           ELSE <<Fields(event.type)[i - 1], event[Fields(event.type)[i - 1]]>>])

\* Event::default().event(name).data(data)
SseEvent(name, data) == [event |-> name, data |-> data]

\* the events a producer may send
FeedEvents ==
    { [type |-> "started", request_id |-> 1, timestamp |-> Now],
      [type |-> "text_chunk", request_id |-> 1, chunk |-> <<0, ChunkSize>>],
      FinalEvent(1, [ok |-> TRUE, val |-> ChunkSize]),
      FinalEvent(1, [ok |-> FALSE, err |-> <<"connection", "refused">>]),
      FinalEvent(1, [ok |-> FALSE, err |-> OperationCancelled]) }

RECURSIVE SeqsUpTo(_, _)
SeqsUpTo(S, n) ==
    IF n = 0
    THEN {<<>>}
    ELSE LET shorter == SeqsUpTo(S, n - 1)
         IN  shorter \cup {Append(q, e) : q \in shorter, e \in S}

InitSSE ==
    /\ InitBase
    /\ dt_ctx = NoPromptContext
    /\ wire_event = <<>>
    /\ feed \in SeqsUpTo(FeedEvents, MaxFeed)
    /\ adapter = "reading"

\* the producer: tx.send(event).await
Feed_Send ==
    /\ tx_open
    /\ feed # <<>>
    /\ Send(1, Head(feed), "producer")
    /\ feed' = Tail(feed)
    /\ UNCHANGED <<managerVars, taskVars, callerVars, clientVars, detectVars,
                   codecVars, rx_closed, lockVars,
                   tx_open, adapter, sse>>

\* the producer drops the Sender
Feed_Close ==
    /\ tx_open
    /\ feed = <<>>
    /\ tx_open' = FALSE
    /\ UNCHANGED <<managerVars, taskVars, chanVars, callerVars, clientVars,
                   detectVars, codecVars, rx_closed, lockVars, feed, adapter, sse>>

\* a loop that goes on reading after a terminal event
SSE_Forward_reads_on ==
    /\ adapter = "reading"
    /\ rx_open[1]
    /\ chan[1] # <<>>
    /\ LET event == Head(chan[1])
           json == to_string(event)
       IN  /\ received' = [received EXCEPT ![1] = Append(@, event)]
           /\ chan' = [chan EXCEPT ![1] = Tail(@)]
           /\ sse' = Append(sse, SseEvent("message", json.val))
           /\ adapter' = "reading"
    /\ UNCHANGED <<managerVars, taskVars, rx_open, sent, callerVars, clientVars,
                   detectVars, codecVars, rx_closed, lockVars, feed, tx_open>>

\* the Error event the loop builds when serde_json::to_string fails
SerializationError ==
    [type |-> "error", request_id |-> UnknownId,
     error |-> <<"Serialization", "error">>, recoverable |-> FALSE]

\* a loop that returns from the stream when serialization fails
SSE_ForwardWith_returns(json) ==
    /\ adapter = "reading"
    /\ rx_open[1]
    /\ chan[1] # <<>>
    /\ LET event == Head(chan[1])
           error_json == to_string(SerializationError)
       IN  /\ received' = [received EXCEPT ![1] = Append(@, event)]
           /\ chan' = [chan EXCEPT ![1] = Tail(@)]
           /\ IF json.ok
              THEN /\ sse' = Append(sse, SseEvent("message", json.val))
                   /\ adapter' = IF IsTerminal(event) THEN "closing" ELSE "reading"
              ELSE /\ sse' = IF error_json.ok
                             THEN Append(sse, SseEvent("error", error_json.val))
                             ELSE sse
                   /\ adapter' = "done"
    /\ UNCHANGED <<managerVars, taskVars, rx_open, sent, callerVars, clientVars,
                   detectVars, codecVars, rx_closed, lockVars, feed, tx_open>>

\* one turn of `while let Some(event) = rx.recv().await`, json being what
\* serde_json::to_string(&event) returned: Ok, the event is yielded as a
\* "message" and the loop breaks after a terminal event; Err, the loop
\* yields the "error" message and breaks
SSE_ForwardWith(json) ==
    /\ adapter = "reading"
    /\ rx_open[1]
    /\ chan[1] # <<>>
    /\ LET event == Head(chan[1])
           error_json == to_string(SerializationError)
       IN  /\ received' = [received EXCEPT ![1] = Append(@, event)]
           /\ chan' = [chan EXCEPT ![1] = Tail(@)]
           /\ IF json.ok
              THEN /\ sse' = Append(sse, SseEvent("message", json.val))
                   /\ adapter' = IF IsTerminal(event) THEN "closing" ELSE "reading"
              ELSE /\ sse' = IF error_json.ok
                             THEN Append(sse, SseEvent("error", error_json.val))
                             ELSE sse
                   /\ adapter' = "closing"
    /\ UNCHANGED <<managerVars, taskVars, rx_open, sent, callerVars, clientVars,
                   detectVars, codecVars, rx_closed, lockVars, feed, tx_open>>

\* the turn of the loop with the serializer of StreamEvent
SSE_Forward ==
    /\ chan[1] # <<>>
    /\ SSE_ForwardWith(to_string(Head(chan[1])))

\* the turn of the loop when serde_json::to_string returns Err
SSE_ForwardErr ==
    SSE_ForwardWith([ok |-> FALSE, err |-> <<"Serialization", "error">>])

\* rx.recv().await returns None: the channel is empty and the Sender is gone
SSE_Closed ==
    /\ adapter = "reading"
    /\ chan[1] = <<>>
    /\ ~tx_open
    /\ adapter' = "closing"
    /\ UNCHANGED <<managerVars, taskVars, chanVars, callerVars, clientVars,
                   detectVars, codecVars, rx_closed, lockVars, feed, tx_open, sse>>

\* after the loop: the "done" message; the stream ends and rx is dropped
SSE_Done ==
    /\ adapter = "closing"
    /\ sse' = Append(sse, SseEvent("done", <<"Stream", "closed">>))
    /\ adapter' = "done"
    /\ rx_open' = [rx_open EXCEPT ![1] = FALSE]
    /\ chan' = [chan EXCEPT ![1] = <<>>]
    /\ UNCHANGED <<managerVars, taskVars, received, sent, callerVars, clientVars,
                   detectVars, codecVars, rx_closed, lockVars, feed, tx_open>>

NextSSE ==
    \/ Feed_Send
    \/ Feed_Close
    \/ SSE_Forward
    \/ SSE_Closed
    \/ SSE_Done

SpecSSE == InitSSE /\ [][NextSSE]_vars

(***************************************************************************)
(* SpecSSEFail: SpecSSE with a serializer that may return Err for any      *)
(* event, which takes the loop through its Err arm.                        *)
(***************************************************************************)
NextSSEFail ==
    \/ NextSSE
    \/ SSE_ForwardErr

SpecSSEFail == InitSSE /\ [][NextSSEFail]_vars

(***************************************************************************)
(* SpecWire: a StreamEvent serialized with serde_json::to_string and read  *)
(* back with serde_json::from_str (derive(Serialize, Deserialize),         *)
(* serde(tag = "type", rename_all = "snake_case")).                        *)
(***************************************************************************)
\* the positions of the members of a JSON object that have the key
Members(json, key) == {i \in 1..Len(json) : json[i][1] = key}

\* the value of the one member with the key
Member(json, key) == json[CHOOSE i \in Members(json, key) : TRUE][2]

\* serde_json::from_str::<StreamEvent>: the tag selects the variant, every
\* field of the variant is read from the member of its name, members of
\* other names are ignored, a missing or repeated field is an error
from_str(json) ==
    IF Cardinality(Members(json, "type")) # 1
    THEN [ok |-> FALSE, err |-> <<"missing", "field", "type">>]
    ELSE LET type == Member(json, "type")
             names == IF type \in VariantNames
                      THEN {Fields(type)[i] : i \in 1..Len(Fields(type))}
                      ELSE {}
         IN  IF type \notin VariantNames
             THEN [ok |-> FALSE, err |-> <<"unknown", "variant">>]
             ELSE IF \E name \in names : Cardinality(Members(json, name)) # 1
             THEN [ok |-> FALSE, err |-> <<"missing", "or", "duplicate", "field">>]
             ELSE Ok([name \in names \cup {"type"} |-> Member(json, name)])

\* values of the fields of a StreamEvent: ids, texts, times and
\* serde_json::Value payloads
WireIds == {UnknownId, 1}

WireTexts == {<<>>, <<"type">>, OperationCancelled}

WireTimes == {-1, 0, Now}

WireData ==
    { [j |-> "null"],
      [j |-> "number", v |-> 2],
      [j |-> "string", v |-> <<"type">>],
      [j |-> "object",
       v |-> << <<"type", [j |-> "string", v |-> <<"started">>]>> >>],
      StructuredData(build_parameters([keys |-> {"Last"}, period |-> Some("Month"),
                                       amount |-> Some(2)])) }

\* the StreamEvents given to to_string
WireEvents ==
    [type : {"started"}, request_id : WireIds, timestamp : WireTimes]
    \cup [type : {"coordinator_thinking"}, request_id : WireIds, message : WireTexts]
    \cup [type : {"text_chunk"}, request_id : WireIds, chunk : WireTexts]
    \cup [type : {"object_chunk", "document_chunk", "description_chunk",
                  "comparison_chunk"},
          request_id : WireIds, data : WireData]
    \cup [type : {"completed"}, request_id : WireIds, final_result : WireTexts,
          timestamp : WireTimes]
    \cup [type : {"error"}, request_id : WireIds, error : WireTexts,
          recoverable : BOOLEAN]
    \cup [type : {"cancelled"}, request_id : WireIds, reason : WireTexts]

InitWire ==
    /\ InitBase
    /\ dt_ctx = NoPromptContext
    /\ feed = <<>>
    /\ adapter = "off"
    /\ \E event \in WireEvents : wire_event = <<event>>

\* serde_json::to_string(&event)
Serialize ==
    /\ wire_json = <<>>
    /\ wire_json' = <<to_string(wire_event[1])>>
    /\ UNCHANGED <<managerVars, taskVars, chanVars, callerVars, clientVars,
                   detectVars, adapterVars, rx_closed, lockVars, wire_event, wire_back>>

\* serde_json::from_str(&json)
Deserialize ==
    /\ wire_json # <<>>
    /\ wire_json[1].ok
    /\ wire_back = <<>>
    /\ wire_back' = <<from_str(wire_json[1].val)>>
    /\ UNCHANGED <<managerVars, taskVars, chanVars, callerVars, clientVars,
                   detectVars, adapterVars, rx_closed, lockVars, wire_event, wire_json>>

NextWire == Serialize \/ Deserialize

SpecWire == InitWire /\ [][NextWire]_vars

(***************************************************************************)
(* Properties.                                                             *)
(***************************************************************************)
Last(seq) == seq[Len(seq)]

\* the positions of the terminal events in a sequence of events
TerminalPositions(events) == {i \in 1..Len(events) : IsTerminal(events[i])}

\* the events the task of r has sent, in order
SentEvents(r) == [i \in 1..Len(sent[r]) |-> sent[r][i].event]

\* the events that reached the consumer's side of the channel, in order
Delivered(r) == received[r] \o chan[r]

TerminalSent(r) == TerminalPositions(SentEvents(r)) # {}

\* after its Started event and before its terminal event
InFlight(r) ==
    pc[r] \in {"thinking", "check1", "check2", "lead", "infer", "text", "data",
               "chunk", "final"}

\* C1: every request gets exactly one terminal event: the task has sent none
\* before its terminal step and exactly one from then on, the orchestrator
\* sent it and no handler sent one, nothing was sent after it, and on the
\* consumer's side of a channel whose receiver is kept it is there, once and
\* last.
C1_OneTerminalLast ==
    \A r \in Requests :
        LET T == TerminalPositions(SentEvents(r))
            D == TerminalPositions(Delivered(r))
        IN  /\ T # {} => /\ T = {Len(sent[r])}
                         /\ Last(sent[r]).by = "orchestrator"
            /\ (T # {}) <=> (pc[r] \in {"unregister", "done"})
            /\ \A i \in 1..Len(sent[r]) :
                   sent[r][i].by = "handler" => ~IsTerminal(sent[r][i].event)
            /\ D # {} => D = {Len(Delivered(r))}
            /\ (T # {} /\ rx_open[r]) => D # {}

\* a request cancelled in flight has ended and its consumer has read the
\* Cancelled event
C1_Witness ==
    /\ pc[1] = "done"
    /\ cancel_ret = <<TRUE>>
    /\ received[1] # <<>>
    /\ Last(received[1]).type = "cancelled"
    /\ Len(received[1]) = Len(sent[1])

\* C2: a request with a non-empty message that was submitted eventually has
\* its terminal event sent.
C2_TerminalEventually ==
    \A r \in Requests : (pc[r] # "idle" /\ request[r] # "") ~> TerminalSent(r)

\* C3: the registry holds an entry only for a request in flight: the key a
\* task registered is gone when the task has ended.
C3_NoRegistryLeak ==
    \A k \in DOMAIN registry :
        \E r \in Requests : reg_key[r] = k /\ pc[r] \notin {"idle", "register", "done"}

\* C4: cancel_request called for a request in flight with the request_id of
\* its Started event returns true and sets the token the task checks.
C4_CancelByAnnouncedId ==
    [][\A r \in Requests :
          (InFlight(r) /\ CancelRequest(context[r].request_id))
              => (cancel_ret' = <<TRUE>> /\ tokens'[context[r].cancellation_token])
      ]_vars

\* C5: a request for which cancel_request(request_id) was called before its
\* first checkpoint ends with Cancelled.
C5_EarlyCancelEndsCancelled ==
    \A r \in Requests :
        (early_cancel[r] /\ TerminalSent(r))
            => Last(sent[r]).event.type = "cancelled"

\* C10: once the task of a request has sent its terminal event and called
\* unregister, a cancel for the request, by the id it announced or by the id
\* it registered, returns false and changes neither the registry nor a token
\* nor the events of the request.
C10_LateCancelNoOp ==
    [][\A r \in Requests : \A id \in {context[r].request_id, reg_key[r]} :
          (pc[r] = "done" /\ CancelRequest(id))
              => (cancel_ret' = <<FALSE>>
                  /\ UNCHANGED <<registry, tokens, chan, received, sent>>)
      ]_vars

\* C6: a token starts false and a flag that is true stays true, whatever the
\* client calls on the registry, on the handles and on their clones.
C6_OneWayLatch ==
    [][/\ \A t \in DOMAIN tokens : t \in DOMAIN tokens' /\ (tokens[t] => tokens'[t])
       /\ \A t \in DOMAIN tokens' \ DOMAIN tokens : tokens'[t] = FALSE
      ]_vars

\* the client has just unregistered an id whose token was cancelled, and a
\* handle still shows the token cancelled
C6_Witness ==
    /\ hist # <<>>
    /\ Last(hist).op = "unregister"
    /\ Last(hist).arg \in DOMAIN Last(hist).registry
    /\ \E h \in DOMAIN handles :
          /\ handles[h] = Last(hist).registry[Last(hist).arg]
          /\ Last(hist).tokens[handles[h]]
          /\ tokens[handles[h]]

\* C7: cancel of an id that is not in the registry returns false and leaves
\* the registry, every token and every handle as they were.
C7_CancelAbsent ==
    hist # <<>> =>
        LET c == Last(hist) IN
        (c.op = "cancel" /\ c.arg \notin DOMAIN c.registry)
            => /\ c.ret = FALSE
               /\ registry = c.registry
               /\ tokens = c.tokens
               /\ handles = c.handles

\* the client has cancelled an id it had just unregistered, while another id
\* is registered
C7_Witness ==
    /\ Len(hist) = 2
    /\ hist[1].op = "unregister"
    /\ hist[1].arg \in DOMAIN hist[1].registry
    /\ hist[2].op = "cancel"
    /\ hist[2].arg = hist[1].arg
    /\ hist[2].arg \notin DOMAIN hist[2].registry
    /\ DOMAIN registry # {}
    /\ hist[2].ret = FALSE

\* C8: register of an absent id followed by unregister of it leaves the
\* registry as it was before the two calls; unregister of an absent id
\* changes nothing.
C8_RegisterUnregister ==
    /\ (/\ Len(hist) = 2
        /\ hist[1].op = "register"
        /\ hist[2].op = "unregister"
        /\ hist[2].arg = hist[1].arg
        /\ hist[1].arg \notin DOMAIN hist[1].registry)
           => /\ registry = hist[1].registry
              /\ hist[1].arg \notin DOMAIN registry
    /\ (/\ hist # <<>>
        /\ Last(hist).op = "unregister"
        /\ Last(hist).arg \notin DOMAIN Last(hist).registry)
           => /\ registry = Last(hist).registry
              /\ tokens = Last(hist).tokens
              /\ handles = Last(hist).handles

\* the client has registered an absent id and unregistered it at once, while
\* another id is registered
C8_Witness ==
    /\ Len(hist) = 2
    /\ hist[1].op = "register"
    /\ hist[2].op = "unregister"
    /\ hist[2].arg = hist[1].arg
    /\ hist[1].arg \notin DOMAIN hist[1].registry
    /\ DOMAIN hist[1].registry # {}
    /\ hist[1].arg \in DOMAIN hist[2].registry

\* C9: a second cancel of a registered id returns true as the first did and
\* leaves the state the first left: the token cancelled, the entry present;
\* CancellationToken::cancel on a cancelled token changes nothing.
C9_CancelIdempotent ==
    /\ (/\ Len(hist) = 2
        /\ hist[1].op = "cancel"
        /\ hist[2].op = "cancel"
        /\ hist[2].arg = hist[1].arg
        /\ hist[1].arg \in DOMAIN hist[1].registry)
           => /\ hist[1].ret = TRUE
              /\ hist[2].ret = TRUE
              /\ registry = hist[2].registry
              /\ tokens = hist[2].tokens
              /\ handles = hist[2].handles
              /\ hist[1].arg \in DOMAIN registry
              /\ tokens[registry[hist[1].arg]] = TRUE
    /\ (/\ hist # <<>>
        /\ Last(hist).op = "token_cancel"
        /\ Last(hist).tokens[Last(hist).handles[Last(hist).arg]])
           => /\ registry = Last(hist).registry
              /\ tokens = Last(hist).tokens
              /\ handles = Last(hist).handles

\* the client has cancelled twice in a row a registered id whose token was
\* not cancelled before
C9_Witness ==
    /\ Len(hist) = 2
    /\ hist[1].op = "cancel"
    /\ hist[2].op = "cancel"
    /\ hist[2].arg = hist[1].arg
    /\ hist[1].arg \in DOMAIN hist[1].registry
    /\ ~hist[1].tokens[hist[1].registry[hist[1].arg]]
    /\ tokens[registry[hist[1].arg]]

\* C11: detect_task returns Ok with one Task for every PromptContext, by the
\* priority Comparison > Description > Document > Object > Chat; a key set
\* with Comparison and Document never yields Document.
C11_DetectPriority ==
    dt_out # <<>> =>
        LET res == dt_out[1]
            keys == dt_ctx.keys
        IN  /\ res.ok
            /\ res.val.kind \in DomainKeys \cup {"Chat"}
            /\ res.val.kind = "Comparison" <=> "Comparison" \in keys
            /\ res.val.kind = "Description" <=>
                  ("Description" \in keys /\ "Comparison" \notin keys)
            /\ res.val.kind = "Document" <=>
                  ("Document" \in keys /\ keys \cap {"Comparison", "Description"} = {})
            /\ res.val.kind = "Object" <=>
                  ("Object" \in keys
                   /\ keys \cap {"Comparison", "Description", "Document"} = {})
            /\ res.val.kind = "Chat" <=> keys \cap DomainKeys = {}
            /\ {"Comparison", "Document"} \subseteq keys => res.val.kind # "Document"

\* detect_task has returned Comparison for a context with the Comparison,
\* the Document and the Object key
C11_Witness ==
    /\ dt_out # <<>>
    /\ {"Comparison", "Document", "Object"} \subseteq dt_ctx.keys
    /\ dt_out[1].ok
    /\ dt_out[1].val.kind = "Comparison"

\* C12: the parameters of a non-Chat Task are those of the whole context:
\* last and all say whether the Last and the All key are present, period and
\* amount are the context's, and another choice of domain keys gives the
\* same parameters.
C12_ParametersFromContext ==
    (dt_out # <<>> /\ dt_out[1].val.kind # "Chat") =>
        LET parameters == dt_out[1].val.parameters IN
        /\ parameters.last <=> "Last" \in dt_ctx.keys
        /\ parameters.all <=> "All" \in dt_ctx.keys
        /\ parameters.period = dt_ctx.period
        /\ parameters.amount = dt_ctx.amount
        /\ \A domain \in (SUBSET DomainKeys) \ {{}} :
              detect_task([dt_ctx EXCEPT !.keys = (@ \ DomainKeys) \cup domain])
                  .val.parameters = parameters

\* detect_task has returned a Document task for "all", not "last", a month
\* and an amount
C12_Witness ==
    /\ dt_out # <<>>
    /\ dt_out[1].val.kind = "Document"
    /\ dt_ctx.keys = {"All", "Document", "Object"}
    /\ dt_ctx.period = Some("Month")
    /\ dt_ctx.amount = Some(2)
    /\ dt_out[1].val.parameters.all
    /\ ~dt_out[1].val.parameters.last

\* the events of r that the channel accepted, in the order of their sends
AcceptedEvents(r) ==
    LET accepted == SelectSeq(sent[r], LAMBDA s : s.ok)
    IN  [i \in 1..Len(accepted) |-> accepted[i].event]

\* C13: within one request the consumer receives the events in the order
\* in which the orchestrator and the handler sent them: the i-th event
\* received is the i-th event the channel accepted, so no two are swapped
\* and none is delivered twice, and what is still queued follows in order.
C13_FifoOrder ==
    \A r \in Requests :
        /\ Len(received[r]) <= Len(AcceptedEvents(r))
        /\ \A i \in 1..Len(received[r]) : received[r][i] = AcceptedEvents(r)[i]
        /\ rx_open[r] => received[r] \o chan[r] = AcceptedEvents(r)

\* the consumer has read the orchestrator's first events and one of the
\* handler's, and more events of the handler wait in the channel
C13_Witness ==
    /\ rx_open[1]
    /\ Len(received[1]) >= 3
    /\ received[1][1].type = "started"
    /\ sent[1][Len(received[1])].by = "handler"
    /\ Len(chan[1]) >= 2

\* C14: delivery is best-effort and non-blocking: a task that has not ended
\* can always take its next step, also when that step sends an event and
\* the channel is full; no step of the producer waits for the consumer.
C14_ProducerNeverWaits ==
    \A r \in Requests :
        pc[r] \notin {"idle", "done"} => ENABLED TaskStep(r)

\* the types of the content events
ContentTypes ==
    {"text_chunk", "object_chunk", "document_chunk", "description_chunk",
     "comparison_chunk"}

\* the parser was run for r and failed
ParseFailed(r) == calls[r].parse >= 1 /\ ~Parse(request[r]).ok

\* C15: when the parser fails for a request, the parse ran once, the
\* classifier, the handlers and the inference were never called, no content
\* event was sent, the task goes straight to its terminal step, and the
\* terminal event is Error with recoverable = false.
C15_ParseFailureFatal ==
    \A r \in Requests :
        ParseFailed(r) =>
            /\ calls[r].parse = 1
            /\ calls[r].detect = 0
            /\ calls[r].handler = 0
            /\ calls[r].infer = 0
            /\ pc[r] \in {"final", "unregister", "done"}
            /\ \A i \in 1..Len(sent[r]) : sent[r][i].event.type \notin ContentTypes
            /\ TerminalSent(r) =>
                  /\ Last(sent[r]).event.type = "error"
                  /\ Last(sent[r]).event.recoverable = FALSE

\* the request with the empty message has ended and its consumer has read
\* Started, CoordinatorThinking and the Error event
C15_Witness ==
    /\ ParseFailed(1)
    /\ pc[1] = "done"
    /\ Len(received[1]) = 3
    /\ received[1][3].type = "error"
    /\ received[1][3].error = ParseFailure

\* the handler of r was called and returned an error
HandlerFailed(r) ==
    /\ calls[r].handler >= 1
    /\ pc[r] \in {"final", "unregister", "done"}
    /\ ~result[r].ok

\* the positions of the TextChunk events the handler of r has sent
HandlerTextChunks(r) ==
    {i \in 1..Len(sent[r]) :
        sent[r][i].by = "handler" /\ sent[r][i].event.type = "text_chunk"}

\* C16: the parser, the classifier, the handler and the inference run at
\* most once per request; when the handler failed after its k TextChunks,
\* the task is at or past its terminal step, the k events come before
\* the terminal event, a consumer that kept its receiver has them in that
\* order on its side of the channel, and the terminal event is not Completed.
C16_HandlerFailureNoRetry ==
    \A r \in Requests :
        /\ calls[r].parse <= 1
        /\ calls[r].detect <= 1
        /\ calls[r].handler <= 1
        /\ calls[r].infer <= 1
        /\ HandlerFailed(r) =>
              /\ calls[r].handler = 1
              /\ calls[r].infer = 1
              /\ TerminalSent(r) =>
                    /\ Last(sent[r]).event.type # "completed"
                    /\ \A i \in HandlerTextChunks(r) : i < Len(sent[r])
              /\ rx_open[r] =>
                    /\ Delivered(r) = SentEvents(r)
                    /\ \A i \in HandlerTextChunks(r) :
                          Delivered(r)[i].type = "text_chunk"

\* the handler of a non-Chat task failed after its first TextChunk and the
\* consumer has read that chunk and then the Error event
C16_Witness ==
    /\ HandlerFailed(1)
    /\ pc[1] = "done"
    /\ HandlerTextChunks(1) = {3}
    /\ Len(received[1]) = 4
    /\ received[1][3].type = "text_chunk"
    /\ received[1][4].type = "error"

\* C17: the terminal event of a request is Cancelled if and only if one of
\* the two checkpoints found the token set; a failure of the parser or of a
\* handler ends the request with Error, recoverable = false, whatever its
\* text, and a request whose token was never set does not end with
\* Cancelled.
C17_CancelledIffCheckpoint ==
    \A r \in Requests :
        TerminalSent(r) =>
            LET terminal == Last(sent[r]).event IN
            /\ terminal.type = "cancelled" <=> calls[r].cancelled_at # 0
            /\ (ParseFailed(r) \/ HandlerFailed(r)) =>
                  /\ terminal.type = "error"
                  /\ terminal.recoverable = FALSE
            /\ ~Token_is_cancelled(tokens, context[r].cancellation_token) =>
                  terminal.type # "cancelled"

\* the events the handler of r has sent
HandlerEvents(r) == {i \in 1..Len(sent[r]) : sent[r][i].by = "handler"}

\* the token of r was set after the second checkpoint had passed
CancelledAfterCheckpoints(r) ==
    /\ calls[r].handler = 1
    /\ calls[r].cancelled_at = 0
    /\ Token_is_cancelled(tokens, context[r].cancellation_token)

\* C18: a token set after the second checkpoint is not observed: the
\* handler runs to its end and sends all its events, and the terminal event
\* is the one of the handler's result: Completed with the handler's text
\* when it succeeded, Error when it failed, and not Cancelled.
C18_LateCancelNotObserved ==
    \A r \in Requests :
        (CancelledAfterCheckpoints(r) /\ TerminalSent(r)) =>
            LET terminal == Last(sent[r]).event IN
            /\ terminal.type # "cancelled"
            /\ result[r].ok =>
                  /\ terminal.type = "completed"
                  /\ terminal.final_result = response[r]
                  /\ Cardinality(HandlerEvents(r)) =
                        IF task[r].kind = "Chat" THEN NumChunks(response[r]) ELSE 3
            /\ ~result[r].ok =>
                  /\ terminal.type = "error"
                  /\ terminal.error = result[r].err

\* the two ids of request r: its registry key and its announced request_id
IdsOf(r) == {NewUuid(r, 1), NewUuid(r, 2)}

\* everything request r owns: the state of its task and its channel
LocalOf(r) ==
    <<pc[r], request[r], context[r], reg_key[r], task[r], response[r],
      chunk_idx[r], result[r], calls[r], chan[r], rx_open[r], sent[r],
      received[r]>>

\* what request r has in the shared RequestManager: the flag of its token
\* and the registry entries under its ids
SharedOf(r) ==
    <<IF context[r].cancellation_token = 0
      THEN FALSE
      ELSE Token_is_cancelled(tokens, context[r].cancellation_token),
      [id \in IdsOf(r) \cap DOMAIN registry |-> registry[id]]>>

\* a step of the task of r, and a cancel_request with one of the ids of r
StepOf(r) == Submit(r, ManyMessage(r)) \/ TaskStepWith(r, ManyLengths, ManyErrors)

CancelAimedAt(r) == \E id \in IdsOf(r) : CancelRequest(id)

\* C19: requests are isolated: every event of a request carries that
\* request's id, and a step of request a (its register and unregister
\* included) or a cancel with an id of a changes neither the token, nor the
\* registry entry, nor the task, the events and the result of another
\* request b.
C19_Isolation ==
    /\ [](\A b \in Requests : \A i \in 1..Len(sent[b]) :
             sent[b][i].event.request_id = NewUuid(b, 2))
    /\ [][\A a, b \in Requests :
             (a # b /\ (StepOf(a) \/ CancelAimedAt(a))) =>
                 (LocalOf(b)' = LocalOf(b) /\ SharedOf(b)' = SharedOf(b))]_vars

\* request 1 was cancelled by its registry key and ended with Cancelled,
\* while request 2, in flight at the same time, completed with its token
\* untouched
C19_Witness ==
    /\ pc[1] = "done"
    /\ pc[2] = "done"
    /\ Last(sent[1]).event.type = "cancelled"
    /\ Last(sent[2]).event.type = "completed"
    /\ Len(sent[2]) = 6
    /\ Token_is_cancelled(tokens, context[1].cancellation_token)
    /\ ~Token_is_cancelled(tokens, context[2].cancellation_token)

\* the SSE messages named "message", in the order they were yielded
ForwardedMessages == SelectSeq(sse, LAMBDA m : m.event = "message")

\* the number of events up to and including the first terminal event
UpToFirstTerminal(events) ==
    IF TerminalPositions(events) = {}
    THEN Len(events)
    ELSE CHOOSE i \in TerminalPositions(events) :
             \A j \in TerminalPositions(events) : i <= j

\* C20: chat_stream_handler yields exactly one "message" for each event it
\* received, with that event's JSON and in the order received; it reads the
\* events the channel accepted in order and no further than the first
\* terminal event, so nothing that follows a terminal event is forwarded;
\* when it has ended it has forwarded all of them up to that event.
C20_AdapterForwardsUntilTerminal ==
    /\ Len(ForwardedMessages) = Len(received[1])
    /\ \A i \in 1..Len(received[1]) :
          /\ ForwardedMessages[i].data = to_string(received[1][i]).val
          /\ received[1][i] = AcceptedEvents(1)[i]
          /\ i < Len(received[1]) => ~IsTerminal(received[1][i])
    /\ Len(received[1]) <= UpToFirstTerminal(AcceptedEvents(1))
    /\ Len(sse) <= Len(received[1]) + 1
    /\ adapter = "done" =>
          /\ Len(received[1]) = UpToFirstTerminal(AcceptedEvents(1))
          /\ Len(sse) = Len(received[1]) + 1
          /\ Last(sse).event = "done"

\* the channel accepted a TextChunk, a Completed event and a further
\* TextChunk; the adapter forwarded the first two and ended
C20_Witness ==
    /\ adapter = "done"
    /\ Len(AcceptedEvents(1)) = 3
    /\ AcceptedEvents(1)[1].type = "text_chunk"
    /\ AcceptedEvents(1)[2].type = "completed"
    /\ AcceptedEvents(1)[3].type = "text_chunk"
    /\ Len(ForwardedMessages) = 2
    /\ ForwardedMessages[2].data[1] = <<"type", "completed">>

PositionsOf(r, types) ==
    {i \in 1..Len(sent[r]) : sent[r][i].event.type \in types}

\* C22: lifecycle order of a request: nothing is sent before the token is
\* registered, and the entry is in the registry while the task runs;
\* Started is the first event and CoordinatorThinking the second, each sent
\* once, and the first checkpoint, the parser and the classifier run after
\* both; content events come after both and before the terminal event; the
\* task has unregistered only after the terminal event was sent.
C22_LifecycleOrder ==
    \A r \in Requests :
        /\ pc[r] \in {"idle", "register"} => sent[r] = <<>>
        /\ pc[r] \notin {"idle", "register", "done"} =>
              /\ reg_key[r] \in DOMAIN registry
              /\ registry[reg_key[r]] = context[r].cancellation_token
        /\ sent[r] # <<>> => PositionsOf(r, {"started"}) = {1}
        /\ Len(sent[r]) >= 2 => PositionsOf(r, {"coordinator_thinking"}) = {2}
        /\ (calls[r].parse > 0 \/ calls[r].detect > 0 \/ calls[r].cancelled_at # 0)
              => Len(sent[r]) >= 2
        /\ \A i \in PositionsOf(r, ContentTypes) :
              /\ i > 2
              /\ \A j \in PositionsOf(r, TerminalTypes) : i < j
        /\ pc[r] = "done" => PositionsOf(r, TerminalTypes) = {Len(sent[r])}

\* a request for objects has run to its end: Started, CoordinatorThinking,
\* three content events, Completed, and then unregister
C22_Witness ==
    /\ pc[1] = "done"
    /\ Len(sent[1]) = 6
    /\ PositionsOf(1, ContentTypes) = {3, 4, 5}
    /\ sent[1][5].event.type = "object_chunk"
    /\ sent[1][6].event.type = "completed"

\* C23: an abandoned consumer does not leak a task: whether the consumer
\* keeps the receiver without reading or drops it, the task of every
\* request that was submitted reaches its end, after its terminal step and
\* its unregister.
C23_AbandonedConsumerTaskEnds ==
    \A r \in Requests : (pc[r] # "idle") ~> (pc[r] = "done")

\* the types of the events r has sent, in order
SentTypes(r) == [i \in 1..Len(sent[r]) |-> sent[r][i].event.type]

\* C24: a checkpoint that executes while the token of the request is set
\* ends process_request with the cancelled failure: the task goes to its
\* terminal step at once; after it no handler and no inference call has
\* run, no content event was sent and the terminal event is Cancelled, the
\* whole stream being Started, CoordinatorThinking, Cancelled.
C24_CheckpointSkipsToCancelled ==
    /\ [](\A r \in Requests :
             calls[r].cancelled_at # 0 =>
                /\ pc[r] \in {"final", "unregister", "done"}
                /\ calls[r].handler = 0
                /\ calls[r].infer = 0
                /\ PositionsOf(r, ContentTypes) = {}
                /\ TerminalSent(r) =>
                      SentTypes(r) = <<"started", "coordinator_thinking", "cancelled">>)
    /\ [][\A r \in Requests :
             (/\ pc[r] \in {"check1", "check2"}
              /\ pc'[r] # pc[r]
              /\ Token_is_cancelled(tokens, context[r].cancellation_token))
             => /\ pc'[r] = "final"
                /\ result'[r] = [ok |-> FALSE, err |-> OperationCancelled]
                /\ calls'[r].cancelled_at = (IF pc[r] = "check1" THEN 1 ELSE 2)
                /\ calls'[r].handler = 0]_vars

\* the token was set between the two checkpoints, the second one saw it,
\* and the consumer has read Started, CoordinatorThinking, Cancelled
C24_Witness ==
    /\ calls[1].cancelled_at = 2
    /\ calls[1].detect = 1
    /\ pc[1] = "done"
    /\ [i \in 1..Len(received[1]) |-> received[1][i].type]
          = <<"started", "coordinator_thinking", "cancelled">>

\* the types of the structured-payload events
StructuredTypes ==
    {"object_chunk", "document_chunk", "description_chunk", "comparison_chunk"}

\* C25: dispatch matches the classified Task: at most one handler is
\* invoked per request and it is the one of the Task detect_task returned
\* for the request's message; the only structured-payload events in the
\* stream are of the kind of that Task, and a Chat request sends none.
C25_DispatchMatchesTask ==
    \A r \in Requests :
        /\ calls[r].handler <= 1
        /\ calls[r].handler = 0 <=> calls[r].agent = "none"
        /\ calls[r].handler = 1 =>
              /\ task[r] = detect_task(Parse(request[r]).val).val
              /\ AgentKind(calls[r].agent) = task[r].kind
        /\ \A i \in PositionsOf(r, StructuredTypes) :
              /\ calls[r].handler = 1
              /\ task[r].kind # "Chat"
              /\ sent[r][i].event.type = ChunkType(task[r].kind)
              /\ sent[r][i].by = "handler"

\* the request for all documents of the month was classified as Document
\* and its stream has a DocumentChunk
C25_Witness ==
    /\ task[1].kind = "Document"
    /\ calls[1].agent = "DocumentAgent"
    /\ PositionsOf(1, StructuredTypes) = {5}
    /\ sent[1][5].event.type = "document_chunk"

\* the handler of r has returned Ok
HandlerSucceeded(r) ==
    /\ calls[r].handler = 1
    /\ pc[r] \in {"final", "unregister", "done"}
    /\ result[r].ok

C27_LeadingChunkBeforeInference ==
    \A r \in Requests :
        (calls[r].handler = 1 /\ (pc[r] = "infer" \/ calls[r].infer >= 1)) =>
            /\ 3 \in HandlerTextChunks(r)
            /\ HandlerFailed(r) => HandlerTextChunks(r) = {3}

\* C28: when the terminal event of a request is Completed, its final_result
\* is the completion the inference backend returned to the handler of the
\* request, as it was returned, for every kind of Task; the handler and the
\* inference call ran once and the handler returned Ok.
C28_FinalResultIsCompletion ==
    \A r \in Requests :
        (TerminalSent(r) /\ Last(sent[r]).event.type = "completed") =>
            /\ HandlerSucceeded(r)
            /\ calls[r].infer = 1
            /\ Last(sent[r]).event.final_result = response[r]
            /\ result[r].val = response[r]

\* a Chat request or a request for documents has completed with the
\* completion of 30 characters as final_result
C28_Witness ==
    /\ pc[1] = "done"
    /\ task[1].kind \in {"Chat", "Document"}
    /\ response[1] = 30
    /\ received[1] # <<>>
    /\ Last(received[1]).type = "completed"
    /\ Last(received[1]).final_result = 30

\* the handles the client holds on token t
HandlesOn(t) == {h \in DOMAIN handles : handles[h] = t}

\* C29: the handle register(id) returns and the token the registry stores
\* under id are the same latch.  Right after register the handle is the
\* stored token, is new and is not cancelled.  After cancel(id) returned
\* true, the token that was stored under id is set, and a following
\* is_cancelled on a handle or clone of it returns true, a following check
\* fails, and a following unregister(id) or clone leaves it set.  No call
\* makes a handle point to another token or clears the flag a handle shows.
C29_HandleIsRegistryToken ==
    /\ [](hist # <<>> =>
             LET c == Last(hist) IN
             /\ c.op = "register" =>
                   /\ c.arg \in DOMAIN registry
                   /\ registry[c.arg] = c.ret
                   /\ c.ret \notin DOMAIN c.tokens
                   /\ ~Token_is_cancelled(tokens, c.ret)
             /\ (c.op = "cancel" /\ c.ret = TRUE) =>
                   /\ c.arg \in DOMAIN c.registry
                   /\ Token_is_cancelled(tokens, c.registry[c.arg])
             /\ (/\ Len(hist) = 2
                 /\ hist[1].op = "cancel"
                 /\ hist[1].ret = TRUE) =>
                   LET t == hist[1].registry[hist[1].arg] IN
                   /\ Token_is_cancelled(tokens, t)
                   /\ (c.op = "is_cancelled" /\ c.arg \in HandlesOn(t))
                         => c.ret = TRUE
                   /\ (c.op = "check" /\ c.arg \in HandlesOn(t))
                         => c.ret = [ok |-> FALSE, err |-> OperationCancelled]
                   /\ (c.op = "unregister" /\ c.arg = hist[1].arg)
                         => /\ c.arg \notin DOMAIN registry
                            /\ \A h \in HandlesOn(t) :
                                  Token_is_cancelled(tokens, handles[h])
                   /\ (c.op = "clone" /\ c.arg \in HandlesOn(t))
                         => /\ handles[c.ret] = t
                            /\ Token_is_cancelled(tokens, handles[c.ret]))
    /\ [][\A h \in DOMAIN handles :
             /\ h \in DOMAIN handles'
             /\ handles'[h] = handles[h]
             /\ Token_is_cancelled(tokens, handles[h])
                   => Token_is_cancelled(tokens', handles'[h])]_vars

\* the client registered an id, cancelled it through the registry,
\* unregistered it, and its handle still shows the token cancelled
C29_Witness ==
    /\ Len(hist) = 2
    /\ hist[1].op = "cancel"
    /\ hist[1].ret = TRUE
    /\ ~hist[1].tokens[hist[1].registry[hist[1].arg]]
    /\ hist[2].op = "unregister"
    /\ hist[2].arg = hist[1].arg
    /\ HandlesOn(hist[1].registry[hist[1].arg]) # {}
    /\ \A h \in HandlesOn(hist[1].registry[hist[1].arg]) : tokens[handles[h]]

\* C30: check() on a handle fails, with the cancelled error, if and only if
\* the flag of its token is set when it is called, and is_cancelled()
\* returns that flag; neither call changes a flag, the registry or a handle.
C30_CheckReadsOnly ==
    hist # <<>> =>
        LET c == Last(hist) IN
        /\ c.op = "check" =>
              /\ ~c.ret.ok <=> c.tokens[c.handles[c.arg]]
              /\ ~c.ret.ok => /\ c.ret.err = OperationCancelled
                              /\ Contains(c.ret.err, "cancelled")
              /\ registry = c.registry
              /\ tokens = c.tokens
              /\ handles = c.handles
        /\ c.op = "is_cancelled" =>
              /\ c.ret = c.tokens[c.handles[c.arg]]
              /\ registry = c.registry
              /\ tokens = c.tokens
              /\ handles = c.handles

\* check has failed on a handle right after its token was cancelled, while
\* another token is not cancelled
C30_Witness ==
    /\ Len(hist) = 2
    /\ hist[1].op \in {"cancel", "token_cancel"}
    /\ hist[2].op = "check"
    /\ ~hist[2].ret.ok
    /\ ~hist[1].tokens[handles[hist[2].arg]]
    /\ \E t \in DOMAIN tokens : ~tokens[t]

\* C31: chat_stream_cancel answers a cancel that found the token with
\* success, and a cancel of an id that is not in the registry, the request
\* having finished, with a response that is not an error response.
C31_NotFoundIsNotAnError ==
    cancel_resp # <<>> =>
        LET resp == cancel_resp[1] IN
        /\ cancel_ret[1] => /\ resp.ok
                            /\ resp.status = 200
                            /\ resp.body.success
        /\ (~cancel_ret[1] /\ \E r \in Requests : pc[r] = "done") =>
              /\ resp.ok
              /\ resp.status < 400

\* C32: every event of a request, those of the orchestrator and those of the
\* handler, carries the request_id of the request, and the events of two
\* different requests carry different request_ids.
C32_EventsCarryRequestId ==
    /\ \A r \in Requests : \A i \in 1..Len(sent[r]) :
          /\ sent[r][i].event.request_id = context[r].request_id
          /\ sent[r][i].event.request_id = sent[r][1].event.request_id
    /\ \A r1, r2 \in Requests :
          (r1 # r2 /\ sent[r1] # <<>> /\ sent[r2] # <<>>) =>
              \A i \in 1..Len(sent[r1]) : \A j \in 1..Len(sent[r2]) :
                  sent[r1][i].event.request_id # sent[r2][j].event.request_id

\* two requests have sent their terminal events, and a handler of each has
\* sent events too
C32_Witness ==
    \E r1, r2 \in Requests :
        /\ r1 # r2
        /\ \A r \in {r1, r2} :
              /\ sent[r] # <<>>
              /\ sent[r][1].event.type = "started"
              /\ IsTerminal(Last(sent[r]).event)
              /\ \E i \in 1..Len(sent[r]) : sent[r][i].by = "handler"

\* a non-Chat handler ran for r and no checkpoint saw the token set
NonChatUncancelled(r) ==
    /\ calls[r].agent \notin {"none", "ChatAgent"}
    /\ calls[r].cancelled_at = 0

\* C33: a request of a non-Chat task on which no cancellation was observed
\* has, once its terminal event is sent, the stream Started,
\* CoordinatorThinking, TextChunk, TextChunk, structured chunk, Completed
\* when the inference call succeeded and Started, CoordinatorThinking,
\* TextChunk, Error when it failed; it never has more than 6 events, which
\* is below the capacity of the channel in the code.
C33_NonChatStreamShape ==
    \A r \in Requests :
        NonChatUncancelled(r) =>
            /\ Len(sent[r]) <= 6
            /\ 6 < CodeChannelCapacity
            /\ TerminalSent(r) =>
                  SentTypes(r) =
                     IF result[r].ok
                     THEN <<"started", "coordinator_thinking", "text_chunk",
                            "text_chunk", ChunkType(AgentKind(calls[r].agent)),
                            "completed">>
                     ELSE <<"started", "coordinator_thinking", "text_chunk",
                            "error">>

\* the chunks of the TextChunk events the handler of r has sent, in order;
\* a chunk is the slice <<offset, length>> of the completion
ChunksSent(r) ==
    LET RECURSIVE pick(_)
        pick(i) ==
            IF i > Len(sent[r]) THEN <<>>
            ELSE IF sent[r][i].by = "handler"
                    /\ sent[r][i].event.type = "text_chunk"
                 THEN <<sent[r][i].event.chunk>> \o pick(i + 1)
                 ELSE pick(i + 1)
    IN pick(1)

\* C34: the Chat handler that returned Ok has sent ceil(n / 20) TextChunks
\* for a completion of n characters, each of at most 20 characters and all
\* but the last of exactly 20; they are consecutive slices from the first
\* character to the last, so that their concatenation is the completion,
\* which is the result of the handler; an empty completion gives none.
C34_ChatChunking ==
    \A r \in Requests :
        (calls[r].agent = "ChatAgent" /\ HandlerSucceeded(r)) =>
            LET n == response[r]
                chunks == ChunksSent(r)
                k == Len(chunks)
            IN /\ result[r].val = n
               /\ k * 20 >= n
               /\ (k - 1) * 20 < n \/ k = 0
               /\ n = 0 => k = 0
               /\ \A i \in 1..k :
                     /\ chunks[i][2] >= 1
                     /\ chunks[i][2] <= 20
                     /\ i < k => chunks[i][2] = 20
                     /\ chunks[i][1] = IF i = 1 THEN 0
                                       ELSE chunks[i - 1][1] + chunks[i - 1][2]
               /\ k > 0 => chunks[k][1] + chunks[k][2] = n
               /\ TerminalSent(r) =>
                     /\ Last(sent[r]).event.type = "completed"
                     /\ Last(sent[r]).event.final_result = n

\* a completion of more than 20 characters that is not a multiple of 20 was
\* sent in chunks and Completed followed
C34_Witness ==
    /\ calls[1].agent = "ChatAgent"
    /\ HandlerSucceeded(1)
    /\ response[1] > 20
    /\ response[1] % 20 # 0
    /\ Len(ChunksSent(1)) >= 2
    /\ TerminalSent(1)

\* C35: the channel of a request reports closure only when the task has
\* ended, after its terminal event, and a consumer that takes every event
\* until the channel reports closure does come to that point: it has then
\* received every event the task sent, the terminal event last.
C35_DrainingConsumerTerminates ==
    /\ [](\A r \in Requests :
            rx_closed[r] =>
                /\ pc[r] = "done"
                /\ chan[r] = <<>>
                /\ received[r] = SentEvents(r)
                /\ received[r] # <<>>
                /\ IsTerminal(Last(received[r])))
    /\ \A r \in Requests : (pc[r] # "idle") ~> rx_closed[r]

\* the consumer of a Chat request took more events than the channel holds
\* and then saw the channel closed
C35_Witness ==
    /\ rx_closed[1]
    /\ calls[1].agent = "ChatAgent"
    /\ Len(received[1]) > ChannelCapacity
    /\ Last(received[1]).type = "completed"

\* the locks task p holds
HeldBy(p) == {l \in LockNames : Holds(p, l)}

\* C36: a task that waits for the registry lock holds no lock, a task that
\* waits for a token lock holds at most the registry lock, for reading, and
\* a suspended orchestrator holds no lock and waits for none; a writer is
\* alone on its lock; and every call that waits for a lock returns.
C36_NoLockDeadlock ==
    /\ [](\A p \in Tasks :
            /\ Waits(p, 0) => HeldBy(p) = {}
            /\ \A t \in LockNames \ {0} :
                  Waits(p, t) => /\ HeldBy(p) \subseteq {0}
                                 /\ Holds(p, 0) =>
                                       /\ <<p, "read">> \in lk[0].held
                                       /\ tpc[p].op = "cancel"
            /\ tpc[p].at \in {"idle", "suspended"} =>
                  /\ HeldBy(p) = {}
                  /\ \A l \in LockNames : ~Waits(p, l)
            /\ \A l \in LockNames :
                  <<p, "write">> \in lk[l].held => lk[l].held = {<<p, "write">>})
    /\ \A p \in Tasks :
          (tpc[p].at \in {"lock1", "lock2"}) ~> (tpc[p].at \in {"idle", "suspended"})

\* RequestManager::cancel holds the registry for reading and waits for the
\* token, whose flag an orchestrator is reading in check(); the flag is
\* still unset
C36_Witness ==
    \E p, q \in Tasks :
        /\ tpc[p].op = "cancel"
        /\ tpc[p].at = "lock2"
        /\ Waits(p, registry[tpc[p].arg])
        /\ <<p, "read">> \in lk[0].held
        /\ tpc[q].op = "check"
        /\ Holds(q, registry[tpc[p].arg])
        /\ ~tokens[registry[tpc[p].arg]]

\* the call registered an id that was in the registry
ReRegister(c) == c.op = "register" /\ c.arg \in DOMAIN c.registry

\* C37: register of an id that is registered stores a new token, not
\* cancelled, under the id; the token stored before is then under no id and
\* keeps its flag, as every other token does; a cancel of the id that
\* follows returns true and sets the new token only, and an unregister of
\* the id that follows leaves no entry for the id.
C37_ReRegisterReplaces ==
    hist # <<>> =>
        /\ ReRegister(Last(hist)) =>
              LET c == Last(hist)
                  old == c.registry[c.arg]
              IN /\ registry[c.arg] = c.ret
                 /\ c.ret # old
                 /\ c.ret \notin DOMAIN c.tokens
                 /\ ~Token_is_cancelled(tokens, c.ret)
                 /\ \A id \in DOMAIN registry : registry[id] # old
                 /\ \A t \in DOMAIN c.tokens : tokens[t] = c.tokens[t]
                 /\ handles \in {c.handles, Append(c.handles, c.ret)}
        /\ (Len(hist) = 2 /\ ReRegister(hist[1]) /\ hist[2].arg = hist[1].arg) =>
              LET old == hist[1].registry[hist[1].arg]
                  new == hist[1].ret
              IN /\ hist[2].op = "cancel" =>
                       /\ hist[2].ret = TRUE
                       /\ Token_is_cancelled(tokens, new)
                       /\ \A t \in DOMAIN tokens \ {new} :
                             tokens[t] = hist[1].tokens[t]
                       /\ \A id \in DOMAIN registry : registry[id] # old
                 /\ hist[2].op = "unregister" =>
                       /\ hist[1].arg \notin DOMAIN registry
                       /\ \A id \in DOMAIN registry : registry[id] \notin {old, new}
                       /\ \A t \in DOMAIN hist[1].tokens :
                             tokens[t] = hist[1].tokens[t]

\* an id whose token the client holds, not cancelled, was registered again
\* and then cancelled: the handle still shows the first token not cancelled
C37_Witness ==
    /\ Len(hist) = 2
    /\ ReRegister(hist[1])
    /\ hist[2].op = "cancel"
    /\ hist[2].arg = hist[1].arg
    /\ \E h \in DOMAIN handles :
          /\ handles[h] = hist[1].registry[hist[1].arg]
          /\ ~Token_is_cancelled(tokens, handles[h])
    /\ Token_is_cancelled(tokens, hist[1].ret)

\* the positions of the SSE messages of a name
Named(name) == {i \in 1..Len(sse) : sse[i].event = name}

\* C38: the stream of chat_stream_handler has ended exactly when it has
\* yielded "done", which it yields once and last, however the loop ended;
\* a failed serialization yields one "error" message, an Error event with
\* the request_id "unknown", ends the loop, and "done" follows it at once;
\* every other message is a "message".  An ended stream yields no more.
C38_StreamEndsWithDone ==
    /\ [](/\ Cardinality(Named("done")) <= 1
          /\ (adapter = "done") <=> (Named("done") # {})
          /\ Named("done") \subseteq {Len(sse)}
          /\ Cardinality(Named("error")) <= 1
          /\ \A i \in Named("error") :
                /\ sse[i].data = to_string(SerializationError).val
                /\ sse[i].data[2] = <<"request_id", UnknownId>>
                /\ adapter \in {"closing", "done"}
                /\ i = IF adapter = "done" THEN Len(sse) - 1 ELSE Len(sse)
          /\ \A i \in 1..Len(sse) : sse[i].event \in {"message", "error", "done"})
    /\ [][adapter = "done" => (adapter' = "done" /\ sse' = sse)]_vars

\* a TextChunk was forwarded, the serialization of the next event failed,
\* and the stream ended with the "error" message and "done"
C38_Witness ==
    /\ adapter = "done"
    /\ Len(sse) = 3
    /\ sse[1].event = "message"
    /\ sse[2].event = "error"
    /\ sse[3].event = "done"
    /\ Len(received[1]) = 2

====
